---- MODULE Spec2Model ----
(***************************************************************************)
(* Model of the encrypted ledger: the Ledger contract (Solidity) and the   *)
(* useLedger React hook that drives it.                                     *)
(*                                                                          *)
(* Two specifications:                                                      *)
(*   ContractSpec - the contract called directly by its users;              *)
(*   Spec         - the hook, its asynchronous handlers and the wallet      *)
(*                  context (chain, signer) changing under them; the hook   *)
(*                  reaches the contract through the same contract code.    *)
(*                                                                          *)
(* euint32 cleartexts are 32-bit unsigned integers.  They are kept as two   *)
(* 16-bit limbs [hi, lo] (value = hi * 2^16 + lo) so that every operation   *)
(* is computed at its true width, modulo 2^32.                              *)
(***************************************************************************)
EXTENDS Integers, Sequences, FiniteSets, TLC

(***************************************************************************)
(* 32-bit unsigned arithmetic (the FHE coprocessor's euint32 operations)    *)
(***************************************************************************)
Limb == 65536

U32(h, l) == [hi |-> h, lo |-> l]

Zero32 == U32(0, 0)

IsU32(x) == x.hi \in 0..(Limb - 1) /\ x.lo \in 0..(Limb - 1)

\* FHE.add on euint32: wraps modulo 2^32
Add32(a, b) ==
    LET s == a.lo + b.lo
    IN  U32((a.hi + b.hi + (s \div Limb)) % Limb, s % Limb)

\* a variant that saturates instead of wrapping
Sub32Saturating(a, b) ==
    IF a.hi < b.hi \/ (a.hi = b.hi /\ a.lo < b.lo)
    THEN Zero32
    ELSE LET d == a.lo - b.lo + Limb
         IN  U32((a.hi - b.hi - (1 - (d \div Limb)) + Limb) % Limb, d % Limb)

\* FHE.sub on euint32: wraps modulo 2^32
Sub32(a, b) ==
    LET d == a.lo - b.lo + Limb
        borrow == 1 - (d \div Limb)
    IN  U32((a.hi - b.hi - borrow + Limb) % Limb, d % Limb)

\* a variant that also holds on equal operands
Ge32(a, b) == a.hi > b.hi \/ (a.hi = b.hi /\ a.lo >= b.lo)

\* FHE.gt on euint32
Gt32(a, b) == a.hi > b.hi \/ (a.hi = b.hi /\ a.lo > b.lo)

Half32(a) == U32(a.hi \div 2, ((a.hi % 2) * Limb + a.lo) \div 2)

IsOdd32(a) == a.lo % 2 = 1

\* FHE.mul on euint32: wraps modulo 2^32 (binary shift-and-add)
RECURSIVE Mul32(_, _)
Mul32(a, b) ==
    IF b = Zero32 THEN Zero32
    ELSE LET r == Mul32(Add32(a, a), Half32(b))
         IN  IF IsOdd32(b) THEN Add32(r, a) ELSE r

(***************************************************************************)
(* Bounds and input sets                                                    *)
(***************************************************************************)
\* contract transactions (completed or reverted) executed in one behaviour
MaxCalls == 2

\* handler calls made by the page (refreshData, decryptBalance, decryptStats,
\* addTransaction, setBudget) in one behaviour
MaxOps == 1

\* renders with changed parameters (chain, signer, FHEVM instance) after the mount
MaxChanges == 1

NoValue == "undefined"

\* the deployed Ledger contract and the accounts that use it
LedgerA == "0xLedgerA"

ZeroAddress == "0x0000000000000000000000000000000000000000"

Users == {"0xAlice", "0xBob"}

\* cleartext amounts: 1 and 429496730 (= 6553 * 2^16 + 39322, the least value
\* whose tenfold exceeds 2^32)
Amounts == {U32(0, 1), U32(6553, 39322)}

Months == {0, 1}

Timestamps == {1700000000}

Categories == {0, 5}

CategoryKeys == {0, 5}

\* <<category, categoryKey>> as callers pass them: equal, or a key that differs
\* from the category
CategoryInputs == {<<0, 0>>, <<5, 5>>, <<5, 0>>}

(***************************************************************************)
(* State                                                                    *)
(***************************************************************************)
VARIABLES
    \* ---- Ledger contract storage, the coprocessor and the ACL ----
    accounts,        \* mapping(address => UserAccount)
    transactions,    \* mapping(address => Transaction[])
    categoryTotals,  \* mapping(address => mapping(uint256 => euint32))
    cts,             \* ciphertext store: handle h (1..Len) holds cleartext cts[h]
    acl,             \* persistent ACL: set of <<handle, address>>
    lastCall,        \* the last contract call: function, sender, outcome, events
    nCalls,          \* transactions executed so far
    callLog,         \* the transactions that completed, in order: function, sender, arguments
    lastRead,        \* the view call being answered: function, caller, argument, result
    twin             \* the storage of a second deployment that is sent the same calls
                     \* with other amounts

contractVars ==
    <<accounts, transactions, categoryTotals, cts, acl, lastCall, nCalls, callLog, lastRead,
      twin>>

VARIABLES
    \* ---- what the hook is rendered with ----
    chainId,               \* wallet chain id, NoChain when undefined
    ethersSigner,          \* the wallet's signer object, NoValue when undefined
    instance,              \* TRUE when an FhevmInstance is available
    ledgerRef,             \* ledgerRef.current, the result of getLedgerByChainId
    \* ---- useState / useRef of useLedger ----
    balanceHandle,
    monthlyExpenseHandle,
    monthlyBudgetHandle,
    isOverBudgetHandle,
    isBudgetWarningHandle,
    clearBalance,
    clearBalanceRef,
    clearMonthlyExpense,
    clearMonthlyBudget,
    isRefreshingRef,
    isDecryptingRef,
    isSubmittingRef,
    message,
    diag,                  \* the addTransaction diagnostics (debug*, lastAdd*)
    \* ---- the pending asynchronous handlers ----
    rf,                    \* refreshData: the Promise.all of the five reads
    dc,                    \* decryptBalance / decryptStats: run()
    sb,                    \* addTransaction / setBudget: run()
    \* ---- observation and bounds ----
    issued,                \* calls made by the last step (external requests, refreshData)
    nChanges,              \* renders with changed parameters so far
    nOps                   \* handler calls made by the page so far

handleVars == <<balanceHandle, monthlyExpenseHandle, monthlyBudgetHandle,
                isOverBudgetHandle, isBudgetWarningHandle>>

clearVars == <<clearBalance, clearBalanceRef, clearMonthlyExpense, clearMonthlyBudget>>

contextVars == <<chainId, ethersSigner, instance, ledgerRef, nChanges>>

hookVars == <<contextVars, handleVars, clearVars, isRefreshingRef, isDecryptingRef,
              isSubmittingRef, message, diag, rf, dc, sb, issued, nOps>>

vars == <<contractVars, hookVars>>

(***************************************************************************)
(* Ledger contract                                                          *)
(***************************************************************************)
\* bytes32(0): the handle of a storage slot never written
ZeroHandle == 0

EmptyAccount ==
    [balance |-> ZeroHandle, monthlyExpense |-> ZeroHandle, monthlyBudget |-> ZeroHandle,
     isOverBudget |-> ZeroHandle, isBudgetWarning |-> ZeroHandle, lastUpdateMonth |-> 0]

isZero(h) == h = ZeroHandle

\* cleartext behind a handle (what the oracle network would decrypt)
Clear(store, h) == store[h]

\* local variables of a call that hold handles
NoMem == [amount |-> ZeroHandle, expenseTimes10 |-> ZeroHandle, budgetTimes8 |-> ZeroHandle]

\* The contract's working state during one call by msg.sender:
\*   acct, txs, cat - the sender's account, transaction array, category totals
\*   cts, acl       - coprocessor ciphertexts and ACL
\*   mem            - the call's local handles
\*   events         - events emitted so far
Machine(sender) ==
    [acct |-> accounts[sender], txs |-> transactions[sender], cat |-> categoryTotals[sender],
     cts |-> cts, acl |-> acl, mem |-> NoMem, events |-> <<>>]

\* the handle of the most recent FHE result
Top(m) == Len(m.cts)

\* any FHE operation: a new ciphertext with a new handle
FheResult(m, v) == [m EXCEPT !.cts = Append(@, v)]

\* account.f = <the result just computed>
StoreField(m, f) == [m EXCEPT !.acct[f] = Top(m)]

\* a local variable = <the result just computed>
StoreLocal(m, name) == [m EXCEPT !.mem[name] = Top(m)]

\* a variant that initialises the field to an encrypted one
InitFieldToOne(m, f) == IF isZero(m.acct[f]) THEN StoreField(FheResult(m, U32(0, 1)), f) ELSE m

InitField(m, f) == IF isZero(m.acct[f]) THEN StoreField(FheResult(m, Zero32), f) ELSE m

ensureNumericInitialized(m) ==
    InitField(InitField(InitField(m, "balance"), "monthlyExpense"), "monthlyBudget")

\* a variant that opens the handle to the contract only
allowThisOnly(m, h, this, sender) == [m EXCEPT !.acl = @ \cup {<<h, this>>}]

\* FHE.allowThis(v); FHE.allow(v, msg.sender)
allowBoth(m, h, this, sender) == [m EXCEPT !.acl = @ \cup {<<h, this>>, <<h, sender>>}]

allowIfNotZero(m, h, this, sender) ==
    IF ~isZero(h) THEN allowBoth(m, h, this, sender) ELSE m

\* FHE.allowThis(accounts[msg.sender].f); FHE.allow(accounts[msg.sender].f, msg.sender)
allowField(m, f, this, sender) == allowBoth(m, m.acct[f], this, sender)

\* _allowIfNotZero(accounts[msg.sender].f)
allowFieldIfNotZero(m, f, this, sender) == allowIfNotZero(m, m.acct[f], this, sender)

\* The FHE library calls, on handles: each returns the machine with the result
\* ciphertext appended; the result's handle is Top of the returned machine.
asEuint32(m, v) == FheResult(m, v)

FHEadd(m, a, b) == FheResult(m, Add32(Clear(m.cts, a), Clear(m.cts, b)))

FHEsub(m, a, b) == FheResult(m, Sub32(Clear(m.cts, a), Clear(m.cts, b)))

FHEmul(m, a, b) == FheResult(m, Mul32(Clear(m.cts, a), Clear(m.cts, b)))

FHEgt(m, a, b) == FheResult(m, Gt32(Clear(m.cts, a), Clear(m.cts, b)))

\* FHE.mul(<handle h>, <the result just computed>)
mulByTop(m, h) == FHEmul(m, h, Top(m))

\* account.isOverBudget = FHE.gt(account.monthlyExpense, account.monthlyBudget)
setIsOverBudget(m) ==
    StoreField(FHEgt(m, m.acct.monthlyExpense, m.acct.monthlyBudget), "isOverBudget")

\* expenseTimes10 = FHE.mul(account.monthlyExpense, FHE.asEuint32(10))
setExpenseTimes10(m) ==
    StoreLocal(mulByTop(asEuint32(m, U32(0, 10)), m.acct.monthlyExpense), "expenseTimes10")

\* budgetTimes8 = FHE.mul(account.monthlyBudget, FHE.asEuint32(8))
setBudgetTimes8(m) ==
    StoreLocal(mulByTop(asEuint32(m, U32(0, 8)), m.acct.monthlyBudget), "budgetTimes8")

\* account.isBudgetWarning = FHE.gt(expenseTimes10, budgetTimes8)
setIsBudgetWarning(m) ==
    StoreField(FHEgt(m, m.mem.expenseTimes10, m.mem.budgetTimes8), "isBudgetWarning")

updateBudgetFlags(m) ==
    setIsBudgetWarning(
        setBudgetTimes8(setExpenseTimes10(setIsOverBudget(ensureNumericInitialized(m)))))

\* An encrypted input as the client builds it: the external handle stands for
\* the ciphertext of `value`; the input proof binds the handle to one contract
\* and one user.
ExternalHandle(value) == [input |-> value]

InputProof(handle, contractAddress, userAddress) ==
    [handles |-> <<handle>>, contractAddress |-> contractAddress, userAddress |-> userAddress]

\* FHE.fromExternal accepts the input only for the contract and sender it is bound to
ProofAccepted(ext, proof, this, sender) ==
    /\ ext = proof.handles[1]
    /\ proof.contractAddress = this
    /\ proof.userAddress = sender

fromExternal(m, ext) == FheResult(m, ext.input)

\* a variant that stores month and category in each other's field
pushTransactionSwapped(m, timestamp, category, isIncome, month) ==
    [m EXCEPT !.txs = Append(@, [amount |-> m.mem.amount, timestamp |-> timestamp,
                                 category |-> month, isIncome |-> isIncome,
                                 month |-> category])]

\* transactions[msg.sender].push(Transaction({amount, timestamp, category, isIncome, month}))
pushTransaction(m, timestamp, category, isIncome, month) ==
    [m EXCEPT !.txs = Append(@, [amount |-> m.mem.amount, timestamp |-> timestamp,
                                 category |-> category, isIncome |-> isIncome,
                                 month |-> month])]

\* FHE.add / FHE.sub of the balance and the amount
balancePlusOrMinus(m, isIncome) ==
    IF isIncome THEN FHEadd(m, m.acct.balance, m.mem.amount)
                ELSE FHEsub(m, m.acct.balance, m.mem.amount)

\* addTransaction, balance block: add income, subtract expense, then allow
updateBalance(m, this, sender, isIncome) ==
    allowField(StoreField(balancePlusOrMinus(m, isIncome), "balance"), "balance", this, sender)

\* monthlyExpense = FHE.add(monthlyExpense, amount)
addToMonthlyExpense(m) ==
    StoreField(FHEadd(m, m.acct.monthlyExpense, m.mem.amount), "monthlyExpense")

\* a variant that accumulates whatever the month
updateMonthlyExpenseNoReset(m, isIncome, month) ==
    IF ~isIncome
    THEN [addToMonthlyExpense(m) EXCEPT !.acct.lastUpdateMonth = month]
    ELSE m

\* addTransaction, monthly expense block: only for an expense
updateMonthlyExpense(m, isIncome, month) ==
    IF ~isIncome
    THEN IF month = m.acct.lastUpdateMonth
         THEN addToMonthlyExpense(m)
         ELSE [m EXCEPT !.acct.monthlyExpense = m.mem.amount, !.acct.lastUpdateMonth = month]
    ELSE m

\* categoryTotals[msg.sender][categoryKey] = <the result just computed>
StoreCategoryTotal(m, categoryKey) == [m EXCEPT !.cat[categoryKey] = Top(m)]

initCategoryTotal(m, categoryKey) ==
    IF isZero(m.cat[categoryKey])
    THEN StoreCategoryTotal(asEuint32(m, Zero32), categoryKey)
    ELSE m

addToCategoryTotal(m, categoryKey) ==
    StoreCategoryTotal(FHEadd(m, m.cat[categoryKey], m.mem.amount), categoryKey)

\* addTransaction, category block: the total is keyed by categoryKey
updateCategoryTotal(m, categoryKey) ==
    addToCategoryTotal(initCategoryTotal(m, categoryKey), categoryKey)

\* the four _allowIfNotZero calls that end addTransaction
allowAccountFields(m, this, sender) ==
    allowFieldIfNotZero(
        allowFieldIfNotZero(
            allowFieldIfNotZero(
                allowFieldIfNotZero(m, "balance", this, sender),
                "monthlyExpense", this, sender),
            "isOverBudget", this, sender),
        "isBudgetWarning", this, sender)

\* a variant that reports the new length as the index
emitTransactionAddedLength(m, sender) ==
    [m EXCEPT !.events = @ \o << <<"TransactionAdded", sender, Len(m.txs)>>,
                                 <<"BalanceUpdated", sender>> >>]

emitTransactionAdded(m, sender) ==
    [m EXCEPT !.events = @ \o << <<"TransactionAdded", sender, Len(m.txs) - 1>>,
                                 <<"BalanceUpdated", sender>> >>]

\* addTransaction(amountEuint32, timestamp, category, isIncome, categoryKey, month, amountProof)
addTransaction(m, this, sender, amountEuint32, timestamp, category, isIncome, categoryKey, month) ==
    emitTransactionAdded(
        allowAccountFields(
            updateBudgetFlags(
                updateCategoryTotal(
                    updateMonthlyExpense(
                        updateBalance(
                            pushTransaction(
                                StoreLocal(
                                    fromExternal(ensureNumericInitialized(m), amountEuint32),
                                    "amount"),
                                timestamp, category, isIncome, month),
                            this, sender, isIncome),
                        isIncome, month),
                    categoryKey)),
            this, sender),
        sender)

\* the three _allowIfNotZero calls that end setMonthlyBudget
allowBudgetFields(m, this, sender) ==
    allowFieldIfNotZero(
        allowFieldIfNotZero(
            allowFieldIfNotZero(m, "monthlyBudget", this, sender),
            "isOverBudget", this, sender),
        "isBudgetWarning", this, sender)

\* a variant that announces the budget in the clear
emitBudgetUpdatedInClear(m, sender) ==
    [m EXCEPT !.events = @ \o << <<"BudgetUpdated", sender, Clear(m.cts, m.acct.monthlyBudget)>> >>]

emitBudgetUpdated(m, sender) == [m EXCEPT !.events = @ \o << <<"BudgetUpdated", sender>> >>]

\* a variant that adds the submitted value to the budget held
addToMonthlyBudget(m) ==
    StoreField(FHEadd(m, m.acct.monthlyBudget, m.mem.amount), "monthlyBudget")

setMonthlyBudgetAdding(m, this, sender, budgetEuint32) ==
    emitBudgetUpdated(
        allowBudgetFields(
            updateBudgetFlags(
                addToMonthlyBudget(
                    StoreLocal(fromExternal(ensureNumericInitialized(m), budgetEuint32),
                               "amount"))),
            this, sender),
        sender)

\* setMonthlyBudget(budgetEuint32, budgetProof)
setMonthlyBudget(m, this, sender, budgetEuint32) ==
    emitBudgetUpdated(
        allowBudgetFields(
            updateBudgetFlags(
                StoreField(fromExternal(ensureNumericInitialized(m), budgetEuint32),
                           "monthlyBudget")),
            this, sender),
        sender)

\* A transaction request: [fn, to, from, args].  args of addTransaction:
\*   <<amountEuint32, timestamp, category, isIncome, categoryKey, month, amountProof>>
\* args of setMonthlyBudget: <<budgetEuint32, budgetProof>>
AddTransactionCall(to, from, ext, timestamp, category, isIncome, categoryKey, month, proof) ==
    [fn |-> "addTransaction", to |-> to, from |-> from,
     args |-> <<ext, timestamp, category, isIncome, categoryKey, month, proof>>]

SetMonthlyBudgetCall(to, from, ext, proof) ==
    [fn |-> "setMonthlyBudget", to |-> to, from |-> from, args |-> <<ext, proof>>]

CallProof(call) == IF call.fn = "addTransaction" THEN call.args[7] ELSE call.args[2]

\* the call reverts when FHE.fromExternal rejects the input proof
CallReverts(call) == ~ProofAccepted(call.args[1], CallProof(call), call.to, call.from)

CallResult(call) ==
    IF call.fn = "addTransaction"
    THEN addTransaction(Machine(call.from), call.to, call.from, call.args[1], call.args[2],
                        call.args[3], call.args[4], call.args[5], call.args[6])
    ELSE setMonthlyBudget(Machine(call.from), call.to, call.from, call.args[1])

\* One transaction executed by the chain against the Ledger contract: either it
\* reverts and storage is untouched, or the whole function body takes effect.
Transact(call) ==
    IF CallReverts(call)
    THEN /\ lastCall' = [fn |-> call.fn, from |-> call.from, status |-> "reverted",
                         events |-> <<>>]
         /\ nCalls' = nCalls + 1
         /\ UNCHANGED <<accounts, transactions, categoryTotals, cts, acl, callLog>>
    ELSE LET m == CallResult(call)
         IN  /\ accounts' = [accounts EXCEPT ![call.from] = m.acct]
             /\ transactions' = [transactions EXCEPT ![call.from] = m.txs]
             /\ categoryTotals' = [categoryTotals EXCEPT ![call.from] = m.cat]
             /\ cts' = m.cts
             /\ acl' = m.acl
             /\ lastCall' = [fn |-> call.fn, from |-> call.from, status |-> "ok",
                             events |-> m.events]
             /\ nCalls' = nCalls + 1
             /\ callLog' = Append(callLog, [fn |-> call.fn, from |-> call.from,
                                            args |-> call.args])

NoCall == [fn |-> "none", from |-> NoValue, status |-> "none", events |-> <<>>]

\* a transaction sent to this deployment only
Execute(call) == Transact(call) /\ UNCHANGED <<lastRead, twin>>

\* no view call is being answered
NoRead == [fn |-> "none", from |-> NoValue, arg |-> 0, status |-> "none", result |-> 0]

\* the storage of a deployment on which nothing was called yet
DeployedStorage ==
    [accounts |-> [u \in Users |-> EmptyAccount],
     transactions |-> [u \in Users |-> <<>>],
     categoryTotals |-> [u \in Users |-> [k \in CategoryKeys |-> ZeroHandle]],
     cts |-> <<>>, acl |-> {}, lastCall |-> NoCall]

\* the contract as deployed
ContractInit ==
    /\ accounts = [u \in Users |-> EmptyAccount]
    /\ transactions = [u \in Users |-> <<>>]
    /\ categoryTotals = [u \in Users |-> [k \in CategoryKeys |-> ZeroHandle]]
    /\ cts = <<>>
    /\ acl = {}
    /\ lastCall = NoCall
    /\ nCalls = 0
    /\ callLog = <<>>
    /\ lastRead = NoRead
    /\ twin = DeployedStorage

(***************************************************************************)
(* useLedger: rendering context                                             *)
(***************************************************************************)
NoChain == -1

NoHandle == -1

\* chain ids the wallet can be on: a local chain with a deployment and a
\* public chain whose entry carries the zero address
ChainLocal == 31337

ChainPublic == 11155111

Chains == {ChainLocal, ChainPublic}

\* a chain the table has no entry for
ChainUnlisted == 1

\* the chain ids the page can be given: the listed ones, an unlisted one and 0
WalletChains == Chains \cup {ChainUnlisted, 0}

\* the generated address table: chain id -> deployment entry
LedgerAddresses ==
    [c \in Chains |->
        IF c = ChainLocal
        THEN [address |-> LedgerA, chainId |-> ChainLocal, chainName |-> "hardhat"]
        ELSE [address |-> ZeroAddress, chainId |-> ChainPublic, chainName |-> "sepolia"]]

\* signer objects and the account each signs for
Signers == {"signerAlice", "signerBob"}

getAddress(signer) == IF signer = "signerAlice" THEN "0xAlice" ELSE "0xBob"

\* a variant that returns the table's entry whatever its address
getLedgerByChainIdUnchecked(c) ==
    IF c = NoChain \/ c = 0
    THEN [address |-> NoValue, chainId |-> NoChain, chainName |-> NoValue]
    ELSE IF c \notin DOMAIN LedgerAddresses
         THEN [address |-> NoValue, chainId |-> c, chainName |-> NoValue]
         ELSE [address |-> LedgerAddresses[c].address,
               chainId |-> LedgerAddresses[c].chainId,
               chainName |-> LedgerAddresses[c].chainName]

getLedgerByChainId(c) ==
    IF c = NoChain \/ c = 0
    THEN [address |-> NoValue, chainId |-> NoChain, chainName |-> NoValue]
    ELSE IF c \notin DOMAIN LedgerAddresses \/ LedgerAddresses[c].address = ZeroAddress
         THEN [address |-> NoValue, chainId |-> c, chainName |-> NoValue]
         ELSE [address |-> LedgerAddresses[c].address,
               chainId |-> LedgerAddresses[c].chainId,
               chainName |-> LedgerAddresses[c].chainName]

\* the text shown when the chain has no deployment
deploymentNotFound(c) == "Ledger deployment not found for chainId=" \o ToString(c) \o "."

\* isDeployed: Boolean(ledger.address) && ledger.address !== ethers.ZeroAddress
isDeployed == ledgerRef.address # NoValue /\ ledgerRef.address # ZeroAddress

\* sameChain.current / sameSigner.current: compare with what the wallet has now
sameChain(c) == c = chainId

sameSigner(signer) == signer = ethersSigner

\* a variant that does not look at the signer
isStaleIgnoringSigner(p) ==
    \/ p.thisLedgerAddress # ledgerRef.address
    \/ ~sameChain(p.thisChainId)

\* isStale() of a run() whose captured context is p
isStale(p) ==
    \/ p.thisLedgerAddress # ledgerRef.address
    \/ ~sameChain(p.thisChainId)
    \/ ~sameSigner(p.thisEthersSigner)

\* a variant that only compares the chain
refreshIsCurrentChainOnly(p) == sameChain(p.thisChainId)

\* the inline check of refreshData's .then
refreshIsCurrent(p) ==
    /\ sameChain(p.thisChainId)
    /\ p.thisLedgerAddress = ledgerRef.address
    /\ sameSigner(p.thisEthersSigner)

(***************************************************************************)
(* useLedger: initial state                                                 *)
(***************************************************************************)
NoClear == [handle |-> NoHandle, clear |-> Zero32]

NoContext == [thisChainId |-> NoChain, thisLedgerAddress |-> NoValue, thisEthersSigner |-> NoValue]

Captured(c, a, signer) == [thisChainId |-> c, thisLedgerAddress |-> a, thisEthersSigner |-> signer]

\* the five getters of refreshData, in the order of the Promise.all
HandleNames == <<"balance", "monthlyExpense", "monthlyBudget", "isOverBudget", "isBudgetWarning">>

NoBatch == [i \in 1..Len(HandleNames) |-> NoHandle]

RefreshIdle == [pc |-> "idle", ctx |-> NoContext, batch |-> NoBatch]

DecryptIdle ==
    [pc |-> "idle", kind |-> "none", ctx |-> NoContext, thisBalanceHandle |-> NoHandle,
     thisExpenseHandle |-> NoHandle, thisBudgetHandle |-> NoHandle, sig |-> "none"]

NoInput == [amount |-> Zero32, isIncome |-> FALSE, category |-> 0, categoryKey |-> 0]

NoEnc == [handles |-> <<>>,
          inputProof |-> [handles |-> <<>>, contractAddress |-> NoValue, userAddress |-> NoValue]]

NoTx == [fn |-> "none", to |-> NoValue, from |-> NoValue, args |-> <<>>]

SubmitIdle ==
    [pc |-> "idle", kind |-> "none", ctx |-> NoContext, input |-> NoInput, userAddr |-> NoValue,
     enc |-> NoEnc, tx |-> NoTx, hash |-> 0, status |-> "none"]

NoDiag ==
    [debugEncryptionContractAddress |-> NoValue, debugEncryptionUserAddress |-> NoValue,
     debugEncryptionChainId |-> NoChain, lastAddAmount |-> <<>>, lastAddIsIncome |-> <<>>,
     lastAddCategory |-> <<>>, lastAddCategoryKey |-> <<>>, lastAddMonth |-> <<>>,
     lastAddTimestamp |-> <<>>, lastAddAmountHandle |-> <<>>, lastAddAmountProof |-> <<>>,
     lastAddTxHash |-> <<>>, lastAddReceiptStatus |-> <<>>, lastAddError |-> <<>>]

\* The hook just mounted with chain c, signer s and instance i: useMemo has
\* computed the ledger info and the deployment message, and the mount effect
\* has called refreshData, which reads when there is a ledger and a signer.
HookMounted(c, s, i) ==
    LET ref == getLedgerByChainId(c)
        reads == ref.chainId # NoChain /\ ref.address # NoValue /\ s # NoValue
    IN  /\ chainId = c
        /\ ethersSigner = s
        /\ instance = i
        /\ ledgerRef = ref
        /\ balanceHandle = NoHandle
        /\ monthlyExpenseHandle = NoHandle
        /\ monthlyBudgetHandle = NoHandle
        /\ isOverBudgetHandle = NoHandle
        /\ isBudgetWarningHandle = NoHandle
        /\ clearBalance = NoClear
        /\ clearBalanceRef = NoClear
        /\ clearMonthlyExpense = NoClear
        /\ clearMonthlyBudget = NoClear
        /\ isRefreshingRef = reads
        /\ isDecryptingRef = FALSE
        /\ isSubmittingRef = FALSE
        /\ message = IF c # NoChain /\ ref.address = NoValue
                     THEN deploymentNotFound(c)
                     ELSE ""
        /\ diag = NoDiag
        /\ rf = IF reads
                THEN [pc |-> "reading", ctx |-> Captured(ref.chainId, ref.address, s),
                      batch |-> NoBatch]
                ELSE RefreshIdle
        /\ dc = DecryptIdle
        /\ sb = SubmitIdle
        /\ issued = IF reads THEN {"refreshData", "reads"} ELSE {"refreshData"}
        /\ nChanges = 0
        /\ nOps = 0

HookInit ==
    \E c \in WalletChains \cup {NoChain}, s \in Signers \cup {NoValue}, i \in BOOLEAN :
        HookMounted(c, s, i)

\* The ledger as an earlier session of one user left it: the contract after
\* that user's addTransaction (an expense of 1 in month 1, category 5) and
\* setMonthlyBudget (1), computed by the contract code from the deployed state.
EarlierUser == "0xAlice"

DeployedMachine ==
    [acct |-> EmptyAccount, txs |-> <<>>, cat |-> [k \in CategoryKeys |-> ZeroHandle],
     cts |-> <<>>, acl |-> {}, mem |-> NoMem, events |-> <<>>]

\* the working state at the start of the next call
NextCall(m) == [m EXCEPT !.events = <<>>, !.mem = NoMem]

UsedMachine ==
    setMonthlyBudget(
        NextCall(addTransaction(DeployedMachine, LedgerA, EarlierUser,
                                ExternalHandle(U32(0, 1)), 1700000000, 5, FALSE, 5, 1)),
        LedgerA, EarlierUser, ExternalHandle(U32(0, 1)))

\* the two calls that made it
EarlierCalls ==
    << [fn |-> "addTransaction", from |-> EarlierUser,
        args |-> AddTransactionCall(LedgerA, EarlierUser, ExternalHandle(U32(0, 1)),
                     1700000000, 5, FALSE, 5, 1,
                     InputProof(ExternalHandle(U32(0, 1)), LedgerA, EarlierUser)).args],
       [fn |-> "setMonthlyBudget", from |-> EarlierUser,
        args |-> SetMonthlyBudgetCall(LedgerA, EarlierUser, ExternalHandle(U32(0, 1)),
                     InputProof(ExternalHandle(U32(0, 1)), LedgerA, EarlierUser)).args] >>

ContractUsed ==
    /\ accounts = [u \in Users |-> IF u = EarlierUser THEN UsedMachine.acct ELSE EmptyAccount]
    /\ transactions = [u \in Users |-> IF u = EarlierUser THEN UsedMachine.txs ELSE <<>>]
    /\ categoryTotals = [u \in Users |-> IF u = EarlierUser THEN UsedMachine.cat
                                         ELSE [k \in CategoryKeys |-> ZeroHandle]]
    /\ cts = UsedMachine.cts
    /\ acl = UsedMachine.acl
    /\ lastCall = [fn |-> "setMonthlyBudget", from |-> EarlierUser, status |-> "ok",
                   events |-> UsedMachine.events]
    /\ nCalls = 2
    /\ callLog = EarlierCalls
    /\ lastRead = NoRead
    /\ twin = DeployedStorage

\* the page opens on a ledger that is fresh or has been used before
Init == (ContractInit \/ ContractUsed) /\ HookInit

\* the contract alone: deployed, with no page open on a wallet
InitDeployed == ContractInit /\ HookMounted(NoChain, NoValue, FALSE)


(***************************************************************************)
(* useLedger: refreshData                                                   *)
(***************************************************************************)
\* refreshData() called with ledgerRef.current = ref and the closure's
\* ethersSigner = signer; `tags` are the other calls of the same step.
\* Sets rf, isRefreshingRef, the five handles and issued.
refreshData(ref, signer, tags) ==
    IF isRefreshingRef
    THEN /\ UNCHANGED <<rf, isRefreshingRef, handleVars>>
         /\ issued' = tags \cup {"refreshData"}
    ELSE IF ref.chainId = NoChain \/ ref.chainId = 0 \/ ref.address = NoValue \/ signer = NoValue
         THEN /\ balanceHandle' = NoHandle
              /\ monthlyExpenseHandle' = NoHandle
              /\ monthlyBudgetHandle' = NoHandle
              /\ UNCHANGED <<rf, isRefreshingRef, isOverBudgetHandle, isBudgetWarningHandle>>
              /\ issued' = tags \cup {"refreshData"}
         ELSE /\ isRefreshingRef' = TRUE
              /\ rf' = [pc |-> "reading", ctx |-> Captured(ref.chainId, ref.address, signer),
                        batch |-> NoBatch]
              /\ UNCHANGED handleVars
              /\ issued' = tags \cup {"refreshData", "reads"}

\* the user (or the page) calls refreshData
RefreshData ==
    /\ nOps < MaxOps
    /\ ~isRefreshingRef
    /\ nOps' = nOps + 1
    /\ refreshData(ledgerRef, ethersSigner, {})
    /\ UNCHANGED <<contractVars, contextVars, clearVars, isDecryptingRef, isSubmittingRef,
                   message, diag, dc, sb>>

\* the five view calls, sent as one batch, are served by the node; msg.sender
\* is the signer's account
RefreshRead ==
    /\ rf.pc = "reading"
    /\ rf.batch = NoBatch
    /\ rf' = [rf EXCEPT !.batch = [i \in 1..Len(HandleNames) |->
                        accounts[getAddress(rf.ctx.thisEthersSigner)][HandleNames[i]]]]
    /\ issued' = {}
    /\ UNCHANGED <<contractVars, contextVars, handleVars, clearVars, isRefreshingRef,
                   isDecryptingRef, isSubmittingRef, message, diag, dc, sb, nOps>>

\* Promise.all(...).then
RefreshResolved ==
    /\ rf.pc = "reading"
    /\ \A i \in 1..Len(HandleNames) : rf.batch[i] # NoHandle
    /\ IF refreshIsCurrent(rf.ctx)
       THEN /\ balanceHandle' = rf.batch[1]
            /\ monthlyExpenseHandle' = rf.batch[2]
            /\ monthlyBudgetHandle' = rf.batch[3]
            /\ isOverBudgetHandle' = rf.batch[4]
            /\ isBudgetWarningHandle' = rf.batch[5]
       ELSE UNCHANGED handleVars
    /\ isRefreshingRef' = FALSE
    /\ rf' = RefreshIdle
    /\ issued' = {}
    /\ UNCHANGED <<contractVars, contextVars, clearVars, isDecryptingRef, isSubmittingRef,
                   message, diag, dc, sb, nOps>>

\* Promise.all(...).catch: a read failed
RefreshFailed ==
    /\ rf.pc = "reading"
    /\ message' = "Ledger data fetch failed!"
    /\ isRefreshingRef' = FALSE
    /\ rf' = RefreshIdle
    /\ issued' = {}
    /\ UNCHANGED <<contractVars, contextVars, handleVars, clearVars, isDecryptingRef,
                   isSubmittingRef, diag, dc, sb, nOps>>

(***************************************************************************)
(* useLedger: a render with changed parameters                              *)
(***************************************************************************)
\* The component re-renders after one wallet event: the chain was switched,
\* the account was switched or disconnected, or the FHEVM instance became
\* available or was dropped.  useMemo ([chainId]) recomputes the ledger info
\* and the deployment message; the effect on refreshData ([ethersSigner])
\* calls the new refreshData.
Render(c, s, i) ==
    /\ nChanges < MaxChanges
    /\ \/ c # chainId /\ s = ethersSigner /\ i = instance
       \/ c = chainId /\ s # ethersSigner /\ i = instance
       \/ c = chainId /\ s = ethersSigner /\ i # instance
    /\ nChanges' = nChanges + 1
    /\ chainId' = c
    /\ ethersSigner' = s
    /\ instance' = i
    /\ IF c # chainId
       THEN /\ ledgerRef' = getLedgerByChainId(c)
            /\ message' = IF c # NoChain /\ getLedgerByChainId(c).address = NoValue
                          THEN deploymentNotFound(c)
                          ELSE ""
       ELSE UNCHANGED <<ledgerRef, message>>
    /\ IF s # ethersSigner
       THEN refreshData(ledgerRef', s, {})
       ELSE /\ UNCHANGED <<rf, isRefreshingRef, handleVars>>
            /\ issued' = {}
    /\ UNCHANGED <<contractVars, clearVars, isDecryptingRef, isSubmittingRef, diag, dc, sb,
                   nOps>>

(***************************************************************************)
(* useLedger: decryptBalance and decryptStats                               *)
(***************************************************************************)
NullSig == "null"

\* the finally block of the decrypt run()
DecryptFinally ==
    /\ isDecryptingRef' = FALSE
    /\ dc' = DecryptIdle

\* decryptBalance(): the early returns leave the state as it is
DecryptBalance ==
    /\ nOps < MaxOps
    /\ nOps' = nOps + 1
    /\ ~isRefreshingRef /\ ~isDecryptingRef
    /\ ledgerRef.address # NoValue /\ instance /\ ethersSigner # NoValue
    /\ balanceHandle # NoHandle
    /\ balanceHandle # clearBalanceRef.handle
    /\ IF balanceHandle = ZeroHandle
       THEN /\ clearBalance' = [handle |-> balanceHandle, clear |-> Zero32]
            /\ clearBalanceRef' = [handle |-> balanceHandle, clear |-> Zero32]
            /\ issued' = {}
            /\ UNCHANGED <<isDecryptingRef, message, dc>>
       ELSE /\ isDecryptingRef' = TRUE
            /\ message' = "Start decrypting balance..."
            /\ dc' = [pc |-> "loadOrSign", kind |-> "balance",
                      ctx |-> Captured(chainId, ledgerRef.address, ethersSigner),
                      thisBalanceHandle |-> balanceHandle,
                      thisExpenseHandle |-> NoHandle, thisBudgetHandle |-> NoHandle,
                      sig |-> "none"]
            /\ issued' = {"loadOrSign"}
            /\ UNCHANGED <<clearBalance, clearBalanceRef>>
    /\ UNCHANGED <<contractVars, contextVars, handleVars, clearMonthlyExpense,
                   clearMonthlyBudget, isRefreshingRef, isSubmittingRef, diag, rf, sb>>

\* decryptStats()
DecryptStats ==
    /\ nOps < MaxOps
    /\ nOps' = nOps + 1
    /\ ~isRefreshingRef /\ ~isDecryptingRef
    /\ ledgerRef.address # NoValue /\ instance /\ ethersSigner # NoValue
    /\ ~(monthlyExpenseHandle = NoHandle /\ monthlyBudgetHandle = NoHandle)
    /\ isDecryptingRef' = TRUE
    /\ message' = "Start decrypting statistics..."
    /\ dc' = [pc |-> "loadOrSign", kind |-> "stats",
              ctx |-> Captured(chainId, ledgerRef.address, ethersSigner),
              thisBalanceHandle |-> NoHandle,
              thisExpenseHandle |-> monthlyExpenseHandle,
              thisBudgetHandle |-> monthlyBudgetHandle,
              sig |-> "none"]
    /\ issued' = {"loadOrSign"}
    /\ UNCHANGED <<contractVars, contextVars, handleVars, clearVars, isRefreshingRef,
                   isSubmittingRef, diag, rf, sb>>

\* a handle that decryptStats asks the oracle for
Decryptable(h) == h # NoHandle /\ h # ZeroHandle

\* a variant that goes on to userDecrypt without a signature
DecryptSignedIgnoringNull(sig) ==
    /\ dc.pc = "loadOrSign"
    /\ IF isStale(dc.ctx)
       THEN /\ message' = "Ignore FHEVM decryption"
            /\ DecryptFinally
            /\ issued' = {}
       ELSE /\ message' = "Call FHEVM userDecrypt..."
            /\ dc' = [dc EXCEPT !.pc = "userDecrypt", !.sig = sig]
            /\ issued' = {"userDecrypt"}
            /\ UNCHANGED isDecryptingRef
    /\ UNCHANGED <<contractVars, contextVars, handleVars, clearVars, isRefreshingRef,
                   isSubmittingRef, diag, rf, sb, nOps>>

\* loadOrSign resolved with sig (a signature, or null)
DecryptSigned(sig) ==
    /\ dc.pc = "loadOrSign"
    /\ IF sig = NullSig
       THEN /\ message' = "Unable to build FHEVM decryption signature"
            /\ DecryptFinally
            /\ issued' = {}
       ELSE IF isStale(dc.ctx)
       THEN /\ message' = "Ignore FHEVM decryption"
            /\ DecryptFinally
            /\ issued' = {}
       ELSE IF dc.kind = "stats" /\ ~Decryptable(dc.thisExpenseHandle)
                                 /\ ~Decryptable(dc.thisBudgetHandle)
       THEN /\ message' = "No statistics data to decrypt"
            /\ DecryptFinally
            /\ issued' = {}
       ELSE /\ message' = IF dc.kind = "balance" THEN "Call FHEVM userDecrypt..."
                          ELSE "Call FHEVM userDecrypt for statistics..."
            /\ dc' = [dc EXCEPT !.pc = "userDecrypt", !.sig = sig]
            /\ issued' = {"userDecrypt"}
            /\ UNCHANGED isDecryptingRef
    /\ UNCHANGED <<contractVars, contextVars, handleVars, clearVars, isRefreshingRef,
                   isSubmittingRef, diag, rf, sb, nOps>>

\* a variant that stores the result without looking at the context
DecryptResolvedUnchecked ==
    /\ dc.pc = "userDecrypt"
    /\ IF dc.kind = "balance"
       THEN /\ clearBalance' = [handle |-> dc.thisBalanceHandle,
                                clear |-> Clear(cts, dc.thisBalanceHandle)]
            /\ clearBalanceRef' = [handle |-> dc.thisBalanceHandle,
                                   clear |-> Clear(cts, dc.thisBalanceHandle)]
            /\ message' = "Balance decrypted"
            /\ UNCHANGED <<clearMonthlyExpense, clearMonthlyBudget>>
       ELSE /\ clearMonthlyExpense' =
                    IF Decryptable(dc.thisExpenseHandle)
                    THEN [handle |-> dc.thisExpenseHandle,
                          clear |-> Clear(cts, dc.thisExpenseHandle)]
                    ELSE clearMonthlyExpense
            /\ clearMonthlyBudget' =
                    IF Decryptable(dc.thisBudgetHandle)
                    THEN [handle |-> dc.thisBudgetHandle,
                          clear |-> Clear(cts, dc.thisBudgetHandle)]
                    ELSE clearMonthlyBudget
            /\ message' = "Statistics decrypted successfully"
            /\ UNCHANGED <<clearBalance, clearBalanceRef>>
    /\ DecryptFinally
    /\ issued' = {}
    /\ UNCHANGED <<contractVars, contextVars, handleVars, isRefreshingRef, isSubmittingRef,
                   diag, rf, sb, nOps>>

\* userDecrypt resolved: res[h] is the cleartext behind each requested handle
DecryptResolved ==
    /\ dc.pc = "userDecrypt"
    /\ IF isStale(dc.ctx)
       THEN /\ message' = "Ignore FHEVM decryption"
            /\ UNCHANGED clearVars
       ELSE IF dc.kind = "balance"
       THEN /\ clearBalance' = [handle |-> dc.thisBalanceHandle,
                                clear |-> Clear(cts, dc.thisBalanceHandle)]
            /\ clearBalanceRef' = [handle |-> dc.thisBalanceHandle,
                                   clear |-> Clear(cts, dc.thisBalanceHandle)]
            /\ message' = "Balance decrypted"
            /\ UNCHANGED <<clearMonthlyExpense, clearMonthlyBudget>>
       ELSE /\ clearMonthlyExpense' =
                    IF Decryptable(dc.thisExpenseHandle)
                    THEN [handle |-> dc.thisExpenseHandle,
                          clear |-> Clear(cts, dc.thisExpenseHandle)]
                    ELSE clearMonthlyExpense
            /\ clearMonthlyBudget' =
                    IF Decryptable(dc.thisBudgetHandle)
                    THEN [handle |-> dc.thisBudgetHandle,
                          clear |-> Clear(cts, dc.thisBudgetHandle)]
                    ELSE clearMonthlyBudget
            /\ message' = "Statistics decrypted successfully"
            /\ UNCHANGED <<clearBalance, clearBalanceRef>>
    /\ DecryptFinally
    /\ issued' = {}
    /\ UNCHANGED <<contractVars, contextVars, handleVars, isRefreshingRef, isSubmittingRef,
                   diag, rf, sb, nOps>>

\* loadOrSign or userDecrypt rejected: only the finally block runs
DecryptFailed ==
    /\ dc.pc \in {"loadOrSign", "userDecrypt"}
    /\ DecryptFinally
    /\ issued' = {}
    /\ UNCHANGED <<contractVars, contextVars, handleVars, clearVars, isRefreshingRef,
                   isSubmittingRef, message, diag, rf, sb, nOps>>

(***************************************************************************)
(* useLedger: addTransaction and setBudget                                  *)
(***************************************************************************)
\* what the form passes to the hook: an amount, and a category with its key
FormAmounts == {U32(0, 1)}

FormCategoryInputs == {<<5, 0>>}

\* months and timestamps the browser clock can give (getMonth() + 1 is 1..12)
ClockMonths == Months \cap (1..12)

\* the finally block of the submit run()
SubmitFinally ==
    /\ isSubmittingRef' = FALSE
    /\ sb' = SubmitIdle

SubmitStart(kind, input) ==
    /\ nOps < MaxOps
    /\ ~isRefreshingRef /\ ~isSubmittingRef
    /\ ledgerRef.address # NoValue /\ instance /\ ethersSigner # NoValue
    /\ nOps' = nOps + 1
    /\ isSubmittingRef' = TRUE
    /\ message' = IF kind = "add" THEN "Starting transaction encryption..."
                  ELSE "Starting budget encryption..."
    /\ sb' = [SubmitIdle EXCEPT !.pc = "getAddress", !.kind = kind,
                                !.ctx = Captured(chainId, ledgerRef.address, ethersSigner),
                                !.input = input]
    /\ issued' = {}
    /\ UNCHANGED <<contractVars, contextVars, handleVars, clearVars, isRefreshingRef,
                   isDecryptingRef, diag, rf, dc>>

\* addTransaction(amount, isIncome, category, categoryKey)
AddTransaction(amount, isIncome, category, categoryKey) ==
    SubmitStart("add", [amount |-> amount, isIncome |-> isIncome, category |-> category,
                        categoryKey |-> categoryKey])

\* setBudget(budget)
SetBudget(budget) == SubmitStart("budget", [NoInput EXCEPT !.amount = budget])

\* the 100 ms timer fired and getAddress() resolved: the diagnostics are
\* stored, the input is built and encrypt() is requested
SubmitGotAddress ==
    /\ sb.pc = "getAddress"
    /\ LET userAddr == getAddress(sb.ctx.thisEthersSigner)
       IN  /\ sb' = [sb EXCEPT !.pc = "encrypt", !.userAddr = userAddr]
           /\ diag' = IF sb.kind = "add"
                      THEN [diag EXCEPT
                              !.debugEncryptionContractAddress = sb.ctx.thisLedgerAddress,
                              !.debugEncryptionUserAddress = userAddr,
                              !.debugEncryptionChainId = sb.ctx.thisChainId,
                              !.lastAddAmount = <<sb.input.amount>>,
                              !.lastAddIsIncome = <<sb.input.isIncome>>,
                              !.lastAddCategory = <<sb.input.category>>,
                              !.lastAddCategoryKey = <<sb.input.categoryKey>>]
                      ELSE diag
    /\ issued' = {"encrypt"}
    /\ UNCHANGED <<contractVars, contextVars, handleVars, clearVars, isRefreshingRef,
                   isDecryptingRef, isSubmittingRef, message, rf, dc, nOps>>

\* instance.createEncryptedInput(contractAddress, userAddr).add32(value).encrypt()
encryptInput(contractAddress, userAddr, value) ==
    [handles |-> <<ExternalHandle(value)>>,
     inputProof |-> InputProof(ExternalHandle(value), contractAddress, userAddr)]

\* a variant that passes the amount itself
contractCallPlain(p, enc, timestamp, month) ==
    IF p.kind = "add"
    THEN AddTransactionCall(p.ctx.thisLedgerAddress, getAddress(p.ctx.thisEthersSigner),
                            p.input.amount, timestamp, p.input.category, p.input.isIncome,
                            p.input.categoryKey, month, enc.inputProof)
    ELSE SetMonthlyBudgetCall(p.ctx.thisLedgerAddress, getAddress(p.ctx.thisEthersSigner),
                              p.input.amount, enc.inputProof)

\* the contract call of run(): new ethers.Contract(thisLedgerAddress, abi,
\* thisEthersSigner).addTransaction(...) or .setMonthlyBudget(...)
contractCall(p, enc, timestamp, month) ==
    IF p.kind = "add"
    THEN AddTransactionCall(p.ctx.thisLedgerAddress, getAddress(p.ctx.thisEthersSigner),
                            enc.handles[1], timestamp, p.input.category, p.input.isIncome,
                            p.input.categoryKey, month, enc.inputProof)
    ELSE SetMonthlyBudgetCall(p.ctx.thisLedgerAddress, getAddress(p.ctx.thisEthersSigner),
                              enc.handles[1], enc.inputProof)

\* a variant that submits without looking at the context
SubmitEncryptedUnchecked(month, timestamp) ==
    /\ sb.pc = "encrypt"
    /\ LET enc == encryptInput(sb.ctx.thisLedgerAddress, sb.userAddr, sb.input.amount)
       IN  /\ message' = "Submitting transaction..."
           /\ diag' = IF sb.kind = "add"
                      THEN [diag EXCEPT !.lastAddAmountHandle = <<enc.handles[1]>>,
                                        !.lastAddAmountProof = <<enc.inputProof>>,
                                        !.lastAddMonth = <<month>>,
                                        !.lastAddTimestamp = <<timestamp>>]
                      ELSE diag
           /\ sb' = [sb EXCEPT !.pc = "send", !.enc = enc, !.status = "pending",
                               !.tx = contractCall(sb, enc, timestamp, month)]
           /\ issued' = {"sendTransaction"}
           /\ UNCHANGED isSubmittingRef
    /\ UNCHANGED <<contractVars, contextVars, handleVars, clearVars, isRefreshingRef,
                   isDecryptingRef, rf, dc, nOps>>

\* encrypt() resolved: the handle and proof are stored (addTransaction), then
\* the context is checked and the contract method is called
SubmitEncrypted(month, timestamp) ==
    /\ sb.pc = "encrypt"
    /\ LET enc == encryptInput(sb.ctx.thisLedgerAddress, sb.userAddr, sb.input.amount)
           stored == IF sb.kind = "add"
                     THEN [diag EXCEPT !.lastAddAmountHandle = <<enc.handles[1]>>,
                                       !.lastAddAmountProof = <<enc.inputProof>>]
                     ELSE diag
       IN  IF isStale(sb.ctx)
           THEN /\ message' = IF sb.kind = "add" THEN "Ignore transaction submission"
                              ELSE "Ignore budget submission"
                /\ diag' = stored
                /\ SubmitFinally
                /\ issued' = {}
           ELSE /\ message' = IF sb.kind = "add" THEN "Submitting transaction..."
                              ELSE "Setting budget..."
                /\ diag' = IF sb.kind = "add"
                           THEN [stored EXCEPT !.lastAddMonth = <<month>>,
                                               !.lastAddTimestamp = <<timestamp>>]
                           ELSE stored
                /\ sb' = [sb EXCEPT !.pc = "send", !.enc = enc, !.status = "pending",
                                    !.tx = contractCall(sb, enc, timestamp, month)]
                /\ issued' = {"sendTransaction"}
                /\ UNCHANGED isSubmittingRef
    /\ UNCHANGED <<contractVars, contextVars, handleVars, clearVars, isRefreshingRef,
                   isDecryptingRef, rf, dc, nOps>>

\* the contract method resolved with the transaction response: tx.wait() is requested
SubmitSent ==
    /\ sb.pc = "send"
    /\ sb' = [sb EXCEPT !.pc = "wait", !.hash = nCalls + 1]
    /\ message' = "Wait for tx"
    /\ diag' = IF sb.kind = "add" THEN [diag EXCEPT !.lastAddTxHash = <<nCalls + 1>>] ELSE diag
    /\ issued' = {"wait"}
    /\ UNCHANGED <<contractVars, contextVars, handleVars, clearVars, isRefreshingRef,
                   isDecryptingRef, isSubmittingRef, rf, dc, nOps>>

\* the chain executes the submitted transaction
TxMined ==
    /\ sb.pc \in {"send", "wait"}
    /\ sb.status = "pending"
    /\ Execute(sb.tx)
    /\ sb' = [sb EXCEPT !.status = IF CallReverts(sb.tx) THEN "reverted" ELSE "ok"]
    /\ issued' = {}
    /\ UNCHANGED <<contextVars, handleVars, clearVars, isRefreshingRef, isDecryptingRef,
                   isSubmittingRef, message, diag, rf, dc, nOps>>

\* tx.wait() resolved with the receipt of a successful transaction
SubmitReceipt ==
    /\ sb.pc = "wait"
    /\ sb.status = "ok"
    /\ diag' = IF sb.kind = "add" THEN [diag EXCEPT !.lastAddReceiptStatus = <<1>>] ELSE diag
    /\ IF isStale(sb.ctx)
       THEN /\ message' = IF sb.kind = "add" THEN "Ignore transaction submission"
                          ELSE "Ignore budget submission"
            /\ issued' = {"receipt"}
            /\ UNCHANGED <<rf, isRefreshingRef, handleVars>>
       ELSE /\ message' = IF sb.kind = "add" THEN "Transaction completed"
                          ELSE "Budget set completed"
            /\ refreshData(ledgerRef, sb.ctx.thisEthersSigner, {"receipt"})
    /\ SubmitFinally
    /\ UNCHANGED <<contractVars, contextVars, clearVars, isDecryptingRef, dc, nOps>>

\* an awaited call of run() rejected (the wallet refused, the transaction
\* reverted, the network failed): the catch block, then finally
SubmitFailed ==
    /\ \/ sb.pc \in {"getAddress", "encrypt", "send"}
       \/ sb.pc = "wait" /\ sb.status \in {"pending", "reverted"}
    /\ message' = IF sb.kind = "add" THEN "Transaction failed!" ELSE "Budget setting failed!"
    /\ diag' = IF sb.kind = "add" THEN [diag EXCEPT !.lastAddError = <<"error">>] ELSE diag
    /\ SubmitFinally
    /\ issued' = {}
    /\ UNCHANGED <<contractVars, contextVars, handleVars, clearVars, isRefreshingRef,
                   isDecryptingRef, rf, dc, nOps>>

(***************************************************************************)
(* Spec: the hook, its handlers and the wallet                              *)
(***************************************************************************)
Next ==
    \/ \E c \in WalletChains \cup {NoChain}, s \in Signers \cup {NoValue}, i \in BOOLEAN :
            Render(c, s, i)
    \/ RefreshData
    \/ RefreshRead
    \/ RefreshResolved
    \/ RefreshFailed
    \/ DecryptBalance
    \/ DecryptStats
    \/ \E sig \in {"signature", NullSig} : DecryptSigned(sig)
    \/ DecryptResolved
    \/ DecryptFailed
    \/ \E amount \in FormAmounts, isIncome \in BOOLEAN, cat \in FormCategoryInputs :
            AddTransaction(amount, isIncome, cat[1], cat[2])
    \/ \E budget \in FormAmounts : SetBudget(budget)
    \/ SubmitGotAddress
    \/ \E month \in ClockMonths, timestamp \in Timestamps : SubmitEncrypted(month, timestamp)
    \/ SubmitSent
    \/ TxMined
    \/ SubmitReceipt
    \/ SubmitFailed

Spec == Init /\ [][Next]_vars

(***************************************************************************)
(* ContractSpec: the contract driven directly by its users                  *)
(***************************************************************************)
\* sender sends addTransaction with an input bound to proofUser
SendAddTransaction(sender, proofUser) ==
    /\ nCalls < MaxCalls
    /\ UNCHANGED hookVars
    /\ \E value \in Amounts, timestamp \in Timestamps, cat \in CategoryInputs,
          isIncome \in BOOLEAN, month \in Months :
            Execute(AddTransactionCall(LedgerA, sender, ExternalHandle(value), timestamp,
                        cat[1], isIncome, cat[2], month,
                        InputProof(ExternalHandle(value), LedgerA, proofUser)))

\* sender sends setMonthlyBudget with an input bound to proofUser
SendSetMonthlyBudget(sender, proofUser) ==
    /\ nCalls < MaxCalls
    /\ UNCHANGED hookVars
    /\ \E value \in Amounts :
            Execute(SetMonthlyBudgetCall(LedgerA, sender, ExternalHandle(value),
                        InputProof(ExternalHandle(value), LedgerA, proofUser)))

\* a user sends addTransaction with an input bound to some user
UserAddTransaction == \E sender \in Users, proofUser \in Users : SendAddTransaction(sender, proofUser)

\* a user sends setMonthlyBudget with an input bound to some user
UserSetMonthlyBudget ==
    \E sender \in Users, proofUser \in Users : SendSetMonthlyBudget(sender, proofUser)

ContractNext == UserAddTransaction \/ UserSetMonthlyBudget

ContractSpec == InitDeployed /\ [][ContractNext]_vars

(***************************************************************************)
(* The contract's view functions                                            *)
(***************************************************************************)
getBalance(sender) == accounts[sender].balance

getMonthlyExpense(sender) == accounts[sender].monthlyExpense

getMonthlyBudget(sender) == accounts[sender].monthlyBudget

getIsOverBudget(sender) == accounts[sender].isOverBudget

getIsBudgetWarning(sender) == accounts[sender].isBudgetWarning

Getters ==
    {"getBalance", "getMonthlyExpense", "getMonthlyBudget", "getIsOverBudget",
     "getIsBudgetWarning"}

\* the getter named fn, called by sender
CallGetterResult(fn, sender) ==
    CASE fn = "getBalance" -> getBalance(sender)
      [] fn = "getMonthlyExpense" -> getMonthlyExpense(sender)
      [] fn = "getMonthlyBudget" -> getMonthlyBudget(sender)
      [] fn = "getIsOverBudget" -> getIsOverBudget(sender)
      [] fn = "getIsBudgetWarning" -> getIsBudgetWarning(sender)

getTransactionCount(sender) == Len(transactions[sender])

\* a variant that also rejects the last index
getTransactionRevertsEarly(sender, index) == ~(index + 1 < Len(transactions[sender]))

\* require(index < transactions[msg.sender].length, ...)
getTransactionReverts(sender, index) == ~(index < Len(transactions[sender]))

\* transactions[msg.sender][index], indices counted from 0
getTransaction(sender, index) == transactions[sender][index + 1]

\* a mapping reads as the zero handle at a key never written
getCategoryTotal(sender, category) ==
    IF category \in DOMAIN categoryTotals[sender]
    THEN categoryTotals[sender][category]
    ELSE ZeroHandle

\* first pass of queryTransactionsByMonth: count the matching transactions from i on
RECURSIVE countMatching(_, _, _)
countMatching(userTransactions, month, i) ==
    IF i < Len(userTransactions)
    THEN (IF userTransactions[i + 1].month = month THEN 1 ELSE 0)
         + countMatching(userTransactions, month, i + 1)
    ELSE 0

\* second pass: indices[index] = i for every matching i from i on
RECURSIVE collectIndices(_, _, _, _, _)
collectIndices(userTransactions, month, i, indices, index) ==
    IF i < Len(userTransactions)
    THEN IF userTransactions[i + 1].month = month
         THEN collectIndices(userTransactions, month, i + 1,
                             [indices EXCEPT ![index + 1] = i], index + 1)
         ELSE collectIndices(userTransactions, month, i + 1, indices, index)
    ELSE indices

\* new uint256[](count)
newArray(count) == [k \in 1..count |-> 0]

queryByMonth(userTransactions, month) ==
    collectIndices(userTransactions, month, 0,
                   newArray(countMatching(userTransactions, month, 0)), 0)

\* a variant that scans another user's array
queryTransactionsByMonthOfOther(sender, month) ==
    queryByMonth(transactions[CHOOSE u \in Users : u # sender], month)

queryTransactionsByMonth(sender, month) == queryByMonth(transactions[sender], month)

(***************************************************************************)
(* ReadSpec: the contract with its users' transactions and view calls; one  *)
(* call is served at a time                                                  *)
(***************************************************************************)
\* arguments the view calls are made with
ReadIndexes == 0..2

ReadCategories == Categories \cup CategoryKeys

ReadMonths == Months

Answer(fn, from, arg, result) ==
    [fn |-> fn, from |-> from, arg |-> arg, status |-> "ok", result |-> result]

Reverted(fn, from, arg, reason) ==
    [fn |-> fn, from |-> from, arg |-> arg, status |-> "reverted", result |-> reason]

\* a view call is answered with r: nothing is written
View(r) ==
    /\ lastRead.fn = "none"
    /\ lastRead' = r
    /\ UNCHANGED <<accounts, transactions, categoryTotals, cts, acl, lastCall, nCalls,
                   callLog, twin, hookVars>>

CallGetter ==
    \E sender \in Users, fn \in Getters : View(Answer(fn, sender, 0, CallGetterResult(fn, sender)))

CallGetTransactionCount ==
    \E sender \in Users :
        View(Answer("getTransactionCount", sender, 0, getTransactionCount(sender)))

CallGetTransaction ==
    \E sender \in Users, index \in ReadIndexes :
        View(IF getTransactionReverts(sender, index)
             THEN Reverted("getTransaction", sender, index, "Transaction index out of bounds")
             ELSE Answer("getTransaction", sender, index, getTransaction(sender, index)))

CallGetCategoryTotal ==
    \E sender \in Users, category \in ReadCategories :
        View(Answer("getCategoryTotal", sender, category, getCategoryTotal(sender, category)))

CallQueryTransactionsByMonth ==
    \E sender \in Users, month \in ReadMonths :
        View(Answer("queryTransactionsByMonth", sender, month,
                    queryTransactionsByMonth(sender, month)))

\* the caller has its answer
ReadReturn ==
    /\ lastRead.fn # "none"
    /\ lastRead' = NoRead
    /\ UNCHANGED <<accounts, transactions, categoryTotals, cts, acl, lastCall, nCalls,
                   callLog, twin, hookVars>>

\* between two view calls a user sends a transaction with an input of its own
ReadAddTransaction ==
    lastRead.fn = "none" /\ \E sender \in Users : SendAddTransaction(sender, sender)

ReadSetMonthlyBudget ==
    lastRead.fn = "none" /\ \E sender \in Users : SendSetMonthlyBudget(sender, sender)

\* transactions and the views of the transaction list
ReadNext ==
    \/ ReadAddTransaction
    \/ ReadSetMonthlyBudget
    \/ CallGetTransactionCount
    \/ CallGetTransaction
    \/ CallQueryTransactionsByMonth
    \/ ReadReturn

ReadSpec == InitDeployed /\ [][ReadNext]_vars

\* transactions and the views that return a handle
HandleNext ==
    \/ ReadAddTransaction
    \/ ReadSetMonthlyBudget
    \/ CallGetter
    \/ CallGetCategoryTotal
    \/ ReadReturn

HandleSpec == InitDeployed /\ [][HandleNext]_vars

(***************************************************************************)
(* Cleartext views used by the properties                                   *)
(***************************************************************************)
\* cleartext of a numeric field; a slot never written reads as 0
ClearOf(h) == IF isZero(h) THEN Zero32 ELSE Clear(cts, h)

BalanceClear(u) == ClearOf(accounts[u].balance)

ExpenseClear(u) == ClearOf(accounts[u].monthlyExpense)

BudgetClear(u) == ClearOf(accounts[u].monthlyBudget)

\* sum over the recorded transactions of one kind of one limb of the amounts,
\* as an unbounded integer
RECURSIVE LimbSum(_, _, _)
LimbSum(txs, income, limb) ==
    IF txs = <<>> THEN 0
    ELSE (IF Head(txs).isIncome = income THEN Clear(cts, Head(txs).amount)[limb] ELSE 0)
         + LimbSum(Tail(txs), income, limb)

\* (sum of income amounts - sum of expense amounts) mod 2^32
ExpectedBalance(u) ==
    LET dh == LimbSum(transactions[u], TRUE, "hi") - LimbSum(transactions[u], FALSE, "hi")
        dl == LimbSum(transactions[u], TRUE, "lo") - LimbSum(transactions[u], FALSE, "lo")
        lo == dl % Limb
        carry == (dl - lo) \div Limb
    IN  U32((dh + carry) % Limb, lo)

\* expenses exceed income, as integers
ExpensesExceedIncome(u) ==
    LET dh == LimbSum(transactions[u], TRUE, "hi") - LimbSum(transactions[u], FALSE, "hi")
        dl == LimbSum(transactions[u], TRUE, "lo") - LimbSum(transactions[u], FALSE, "lo")
    IN  dh < 0 \/ (dh = 0 /\ dl < 0)

\* k * x as an integer, kept as <<high part, low limb>> with the high part unbounded
Times(k, x) == <<k * x.hi + ((k * x.lo) \div Limb), (k * x.lo) % Limb>>

\* comparison of two such integers
IntGreater(p, q) == p[1] > q[1] \/ (p[1] = q[1] /\ p[2] > q[2])

\* the step is a completed addTransaction by u
AddTransactionStep(u) == Len(transactions'[u]) = Len(transactions[u]) + 1

NewTransaction(u) == transactions'[u][Len(transactions'[u])]

(***************************************************************************)
(* C7: after any sequence of addTransaction calls the cleartext of a user's *)
(* balance is (sum of income amounts - sum of expense amounts) mod 2^32,    *)
(* starting from 0; an expense larger than the balance wraps around.        *)
(***************************************************************************)
C7_BalanceIsNetModulo == \A u \in Users : BalanceClear(u) = ExpectedBalance(u)

\* a completed expense that took the balance below zero
C7_Witness ==
    \E u \in Users :
        /\ lastCall = [fn |-> "addTransaction", from |-> u, status |-> "ok",
                       events |-> lastCall.events]
        /\ Len(transactions[u]) = 2
        /\ ~transactions[u][2].isIncome
        /\ ExpensesExceedIncome(u)
        /\ BalanceClear(u).hi >= Limb \div 2

(***************************************************************************)
(* C8: addTransaction updates the monthly expense only for an expense: an   *)
(* income leaves monthlyExpense's cleartext and lastUpdateMonth unchanged;   *)
(* an expense of month lastUpdateMonth adds the amount (mod 2^32); an        *)
(* expense of another month sets monthlyExpense to the amount and            *)
(* lastUpdateMonth to the month.                                             *)
(***************************************************************************)
C8_Step(u) ==
    LET t == NewTransaction(u)
        amt == Clear(cts', t.amount)
        old == ExpenseClear(u)
        new == ClearOf(accounts[u].monthlyExpense)'
        sumLo == old.lo + amt.lo
        sumHi == old.hi + amt.hi + (IF sumLo >= Limb THEN 1 ELSE 0)
        sum == U32(IF sumHi >= Limb THEN sumHi - Limb ELSE sumHi,
                   IF sumLo >= Limb THEN sumLo - Limb ELSE sumLo)
    IN  /\ t.isIncome =>
              /\ new = old
              /\ accounts'[u].lastUpdateMonth = accounts[u].lastUpdateMonth
        /\ (~t.isIncome /\ t.month = accounts[u].lastUpdateMonth) =>
              /\ new = sum
              /\ accounts'[u].lastUpdateMonth = accounts[u].lastUpdateMonth
        /\ (~t.isIncome /\ t.month # accounts[u].lastUpdateMonth) =>
              /\ new = amt
              /\ accounts'[u].lastUpdateMonth = t.month

C8_MonthlyExpenseUpdate == [][\A u \in Users : AddTransactionStep(u) => C8_Step(u)]_vars

\* two expenses of month 1: the first resets the monthly expense, the second adds to it
C8_Witness ==
    \E u \in Users :
        /\ Len(transactions[u]) = 2
        /\ \A i \in 1..2 : ~transactions[u][i].isIncome /\ transactions[u][i].month = 1
        /\ accounts[u].lastUpdateMonth = 1
        /\ Clear(cts, transactions[u][1].amount) = U32(6553, 39322)
        /\ Clear(cts, transactions[u][2].amount) = U32(6553, 39322)
        /\ ExpenseClear(u) = U32(13107, 13108)

(***************************************************************************)
(* C9: after every addTransaction and setMonthlyBudget of a user, the       *)
(* user's isOverBudget flag decrypts to true exactly when monthlyExpense is  *)
(* strictly greater than monthlyBudget, on the values at the end of the call *)
(***************************************************************************)
C9_OverBudgetFlag ==
    \A u \in Users :
        /\ (lastCall.status = "ok" /\ lastCall.from = u) => ~isZero(accounts[u].isOverBudget)
        /\ ~isZero(accounts[u].isOverBudget) =>
              (Clear(cts, accounts[u].isOverBudget)
                  <=> IntGreater(Times(1, ExpenseClear(u)), Times(1, BudgetClear(u))))

\* a budget set below the month's expense
C9_Witness ==
    \E u \in Users :
        /\ lastCall.fn = "setMonthlyBudget" /\ lastCall.status = "ok" /\ lastCall.from = u
        /\ ExpenseClear(u) = U32(6553, 39322)
        /\ BudgetClear(u) = U32(0, 1)
        /\ Clear(cts, accounts[u].isOverBudget) = TRUE

(***************************************************************************)
(* C10: after every addTransaction and setMonthlyBudget of a user, the      *)
(* user's isBudgetWarning flag decrypts to true exactly when                 *)
(* 10 * monthlyExpense > 8 * monthlyBudget as integers, for every pair of    *)
(* 32-bit values.                                                            *)
(***************************************************************************)
C10_BudgetWarningFlag ==
    \A u \in Users :
        ~isZero(accounts[u].isBudgetWarning) =>
            (Clear(cts, accounts[u].isBudgetWarning)
                <=> IntGreater(Times(10, ExpenseClear(u)), Times(8, BudgetClear(u))))

(***************************************************************************)
(* Views of the hook used by the properties                                 *)
(***************************************************************************)
\* the ledger address, chain and signer as they are now
CtxNow == Captured(chainId, ledgerRef.address, ethersSigner)

\* the step is the continuation of a decrypt run() after userDecrypt
AfterUserDecrypt == dc.pc = "userDecrypt" /\ dc'.pc = "idle"

\* the step is decryptBalance's immediate answer for the zero handle
ZeroBalanceAnswer ==
    /\ dc.pc = "idle" /\ dc'.pc = "idle"
    /\ balanceHandle = ZeroHandle
    /\ clearBalance' = [handle |-> ZeroHandle, clear |-> Zero32]
    /\ clearBalanceRef' = clearBalance'
    /\ UNCHANGED <<clearMonthlyExpense, clearMonthlyBudget>>

\* the step is the .then of refreshData's Promise.all
AfterReads == rf.pc = "reading" /\ rf.batch # NoBatch /\ rf'.pc = "idle"

\* the step is refreshData finding no ledger or no signer: three handles are reset
HandlesReset ==
    /\ balanceHandle' = NoHandle
    /\ monthlyExpenseHandle' = NoHandle
    /\ monthlyBudgetHandle' = NoHandle
    /\ UNCHANGED <<isOverBudgetHandle, isBudgetWarningHandle>>
    /\ ledgerRef'.address = NoValue \/ ethersSigner' = NoValue

(***************************************************************************)
(* C1: decryptBalance and decryptStats write a decrypted value to the clear *)
(* values only if, at the moment of the write, ledger address, chain and    *)
(* signer are those captured when the handler was called; a call that finds  *)
(* them changed after loadOrSign or userDecrypt changes no clear value.      *)
(***************************************************************************)
C1_Step ==
    /\ clearVars' # clearVars =>
          \/ AfterUserDecrypt /\ dc.ctx = CtxNow'
          \/ ZeroBalanceAnswer
    /\ (dc.pc # "idle" /\ dc'.pc = "idle" /\ dc.ctx # CtxNow') => clearVars' = clearVars

C1_ClearValuesGuarded == [][C1_Step]_vars

\* a balance was decrypted and stored
C1_Witness ==
    /\ clearBalance.handle # NoHandle
    /\ clearBalance.handle # ZeroHandle
    /\ clearBalanceRef = clearBalance
    /\ clearBalance.clear = Clear(cts, balanceHandle)
    /\ message = "Balance decrypted"

(***************************************************************************)
(* C2: refreshData writes the five fetched handles only if, when the reads  *)
(* resolve, chain, ledger address and signer are those captured when the     *)
(* refresh started; otherwise every handle keeps its value; the five handles *)
(* are written together, from one batch of reads.                            *)
(***************************************************************************)
C2_Step ==
    /\ handleVars' # handleVars =>
          \/ /\ AfterReads
             /\ rf.ctx = CtxNow'
             /\ handleVars' = <<rf.batch[1], rf.batch[2], rf.batch[3], rf.batch[4], rf.batch[5]>>
          \/ HandlesReset
    /\ (AfterReads /\ rf.ctx # CtxNow') => handleVars' = handleVars

C2_HandlesGuarded == [][C2_Step]_vars

\* the five handles of a used account were fetched and stored
C2_Witness ==
    /\ rf.pc = "idle"
    /\ ethersSigner # NoValue
    /\ balanceHandle = accounts[getAddress(ethersSigner)].balance
    /\ isBudgetWarningHandle = accounts[getAddress(ethersSigner)].isBudgetWarning
    /\ \A h \in {balanceHandle, monthlyExpenseHandle, monthlyBudgetHandle,
                isOverBudgetHandle, isBudgetWarningHandle} : h # NoHandle /\ h # ZeroHandle

\* the step ends a run() of addTransaction or setBudget
SubmitEnds == sb.pc # "idle" /\ sb'.pc = "idle"

\* the diagnostics addTransaction stores from its awaited calls
AwaitedDiagnostics(d) ==
    <<d.debugEncryptionUserAddress, d.lastAddAmountHandle, d.lastAddAmountProof,
      d.lastAddTxHash, d.lastAddReceiptStatus>>

(***************************************************************************)
(* C3: addTransaction and setBudget call the contract method only after     *)
(* encryption completed and only if chain, ledger address and signer are     *)
(* unchanged then; the handler invokes refreshData only after the receipt    *)
(* was obtained and only if the context is still unchanged; a handler that   *)
(* throws or finds the context stale triggers no refresh.                    *)
(***************************************************************************)
C3_Step ==
    /\ ("sendTransaction" \in issued' \/ (sb'.tx # sb.tx /\ sb'.tx # NoTx)) =>
          /\ sb.pc = "encrypt" /\ sb'.pc = "send"
          /\ sb'.enc # NoEnc
          /\ sb'.enc.handles = <<ExternalHandle(sb.input.amount)>>
          /\ sb.ctx = CtxNow'
    /\ nCalls' # nCalls => sb.pc \in {"send", "wait"} /\ sb.tx # NoTx
    /\ (SubmitEnds /\ "refreshData" \in issued') =>
          /\ sb.pc = "wait" /\ sb.status = "ok"
          /\ "receipt" \in issued'
          /\ sb.ctx = CtxNow'
    /\ (SubmitEnds /\ (sb.ctx # CtxNow' \/ "receipt" \notin issued')) =>
          /\ "refreshData" \notin issued'
          /\ UNCHANGED <<rf, handleVars, isRefreshingRef>>

C3_SubmitOrder == [][C3_Step]_vars

\* a submitted transaction succeeded and the handler refreshed the handles
C3_Witness ==
    /\ sb.pc = "idle"
    /\ issued = {"receipt", "refreshData", "reads"}
    /\ rf.pc = "reading"
    /\ lastCall.status = "ok"
    /\ message \in {"Transaction completed", "Budget set completed"}

(***************************************************************************)
(* C4: every async handler of useLedger commits a result of an awaited call *)
(* to hook state only after a staleness check made after that await has      *)
(* passed, the diagnostics debugEncryptionUserAddress, lastAddAmountHandle,  *)
(* lastAddAmountProof, lastAddTxHash and lastAddReceiptStatus included.      *)
(***************************************************************************)
C4_Step ==
    /\ (AfterReads /\ handleVars' # handleVars) => rf.ctx = CtxNow'
    /\ (AfterUserDecrypt /\ clearVars' # clearVars) => dc.ctx = CtxNow'
    /\ AwaitedDiagnostics(diag') # AwaitedDiagnostics(diag) => sb.ctx = CtxNow'

C4_EveryCommitGuarded == [][C4_Step]_vars

(***************************************************************************)
(* C4 as amended: the handles (refreshData) and the clear values             *)
(* (decryptBalance, decryptStats) are committed only after a staleness check *)
(* made after the await has passed, and addTransaction and setBudget commit  *)
(* no handle or clear value themselves; the diagnostics of addTransaction    *)
(* are stored without such a check, in a stale context too, each as soon as  *)
(* its awaited call resolves, and only by a run() of addTransaction.         *)
(***************************************************************************)
C4_AmendedStep ==
    /\ (AfterReads /\ handleVars' # handleVars) => rf.ctx = CtxNow'
    /\ (AfterUserDecrypt /\ clearVars' # clearVars) => dc.ctx = CtxNow'
    /\ (sb.pc # "idle" /\ sb' # sb /\ ~HandlesReset) => UNCHANGED <<handleVars, clearVars>>
    /\ diag' # diag => sb.kind = "add" /\ sb.pc # "idle"
    /\ (sb.kind = "add" /\ sb.pc = "getAddress" /\ sb'.pc = "encrypt") =>
          diag'.debugEncryptionUserAddress = getAddress(sb.ctx.thisEthersSigner)
    /\ (sb.kind = "add" /\ sb.pc = "encrypt" /\ sb'.pc \in {"send", "idle"}
                        /\ message' # "Transaction failed!") =>
          /\ diag'.lastAddAmountHandle = <<ExternalHandle(sb.input.amount)>>
          /\ diag'.lastAddAmountProof # <<>>
    /\ (sb.kind = "add" /\ sb.pc = "send" /\ sb'.pc = "wait") =>
          diag'.lastAddTxHash = <<sb'.hash>>
    /\ (sb.kind = "add" /\ sb.pc = "wait" /\ sb'.pc = "idle"
                        /\ message' # "Transaction failed!") =>
          diag'.lastAddReceiptStatus = <<1>>

C4_HandlesAndClearGuarded == [][C4_AmendedStep]_vars

\* addTransaction stored the signer's address while the context was stale
C4_Witness ==
    /\ sb.kind = "add"
    /\ sb.pc = "encrypt"
    /\ sb.ctx # CtxNow
    /\ diag.debugEncryptionUserAddress = getAddress(sb.ctx.thisEthersSigner)

(***************************************************************************)
(* C5: the hook sends an amount or a budget only encrypted: the call's       *)
(* arguments hold the handle and the input proof of the encrypted value,     *)
(* never the plain number; the input is bound to the ledger address the      *)
(* transaction is sent to and to the address of the signer that sends it;    *)
(* timestamp, category, isIncome, categoryKey and month go in plaintext.     *)
(***************************************************************************)
C5_EncryptedAmountOnly ==
    sb.tx # NoTx =>
        LET a == sb.tx.args
            proof == a[Len(a)]
        IN  /\ sb.tx.fn = (IF sb.kind = "add" THEN "addTransaction" ELSE "setMonthlyBudget")
            /\ Len(a) = (IF sb.kind = "add" THEN 7 ELSE 2)
            /\ a[1] = ExternalHandle(sb.input.amount)
            /\ a[1] # sb.input.amount
            /\ proof.handles = <<a[1]>>
            /\ proof.contractAddress = sb.tx.to
            /\ proof.userAddress = sb.tx.from
            /\ sb.tx.to = sb.ctx.thisLedgerAddress
            /\ sb.tx.from = getAddress(sb.ctx.thisEthersSigner)
            /\ sb.kind = "add" =>
                  /\ a[2] \in Timestamps
                  /\ a[3] = sb.input.category
                  /\ a[4] = sb.input.isIncome
                  /\ a[5] = sb.input.categoryKey
                  /\ a[6] \in ClockMonths

\* the ledger accepted an addTransaction sent by the hook
C5_Witness ==
    /\ sb.kind = "add"
    /\ sb.pc = "wait"
    /\ sb.status = "ok"
    /\ sb.tx.args[1] = ExternalHandle(sb.input.amount)
    /\ lastCall = [fn |-> "addTransaction", from |-> sb.tx.from, status |-> "ok",
                   events |-> lastCall.events]

(***************************************************************************)
(* C6: decryption happens only on demand: loadOrSign and userDecrypt are     *)
(* requested only inside a call of decryptBalance or decryptStats, never by  *)
(* refreshData, addTransaction, setBudget or a chain or signer change; a     *)
(* decrypt call whose signature is null requests no userDecrypt and changes  *)
(* no clear value.                                                           *)
(***************************************************************************)
C6_Step ==
    /\ "loadOrSign" \in issued' =>
          /\ dc.pc = "idle" /\ dc'.pc = "loadOrSign"
          /\ dc'.kind \in {"balance", "stats"}
    /\ "userDecrypt" \in issued' =>
          /\ dc.pc = "loadOrSign" /\ dc'.pc = "userDecrypt"
    /\ ("loadOrSign" \in issued' \/ "userDecrypt" \in issued') =>
          /\ UNCHANGED <<rf, sb, contextVars, handleVars>>
          /\ issued' \cap {"refreshData", "reads", "encrypt", "sendTransaction", "wait",
                           "receipt"} = {}
    /\ dc'.pc = "userDecrypt" => dc'.sig # NullSig /\ dc'.sig # "none"
    /\ clearVars' # clearVars => ZeroBalanceAnswer \/ (AfterUserDecrypt /\ dc.sig # NullSig)
    /\ (dc.pc = "loadOrSign" /\ message' = "Unable to build FHEVM decryption signature") =>
          /\ dc'.pc = "idle"
          /\ "userDecrypt" \notin issued'
          /\ clearVars' = clearVars

C6_DecryptOnDemand == [][C6_Step]_vars

\* a decrypt call ended because no signature could be built
C6_Witness ==
    /\ message = "Unable to build FHEVM decryption signature"
    /\ dc.pc = "idle"
    /\ ~isDecryptingRef
    /\ clearBalance = NoClear /\ clearMonthlyExpense = NoClear /\ clearMonthlyBudget = NoClear
    /\ nOps = 1

\* sum over the recorded transactions with category field c of one limb of the
\* amounts, as an unbounded integer
RECURSIVE CategoryLimbSum(_, _, _)
CategoryLimbSum(txs, c, limb) ==
    IF txs = <<>> THEN 0
    ELSE (IF Head(txs).category = c THEN Clear(cts, Head(txs).amount)[limb] ELSE 0)
         + CategoryLimbSum(Tail(txs), c, limb)

\* (sum of the amounts of u's transactions with category field c) mod 2^32
ExpectedCategoryTotal(u, c) ==
    U32((CategoryLimbSum(transactions[u], c, "hi")
            + (CategoryLimbSum(transactions[u], c, "lo") \div Limb)) % Limb,
        CategoryLimbSum(transactions[u], c, "lo") % Limb)

HasCategory(u, c) == \E i \in 1..Len(transactions[u]) : transactions[u][i].category = c

(***************************************************************************)
(* C11: getCategoryTotal(c) returns the caller's total for category c: its  *)
(* cleartext is the sum mod 2^32 of the amounts of the caller's recorded    *)
(* transactions whose category field is c, and it is the zero handle when   *)
(* the caller has no such transaction.                                      *)
(***************************************************************************)
C11_CategoryTotalByField ==
    (lastRead.fn = "getCategoryTotal" /\ lastRead.status = "ok") =>
        IF HasCategory(lastRead.from, lastRead.arg)
        THEN /\ ~isZero(lastRead.result)
             /\ Clear(cts, lastRead.result) = ExpectedCategoryTotal(lastRead.from, lastRead.arg)
        ELSE isZero(lastRead.result)

\* the handles an account holds
AccountHandles(acct) ==
    {acct.balance, acct.monthlyExpense, acct.monthlyBudget, acct.isOverBudget,
     acct.isBudgetWarning} \ {ZeroHandle}

\* every handle u's storage holds: account fields, transaction amounts, category totals
HandlesOf(u) ==
    (AccountHandles(accounts[u])
        \cup {transactions[u][i].amount : i \in 1..Len(transactions[u])}
        \cup {categoryTotals[u][k] : k \in CategoryKeys}) \ {ZeroHandle}

\* who is allowed on handle h
AllowedOn(h) == {p[2] : p \in {q \in acl : q[1] = h}}

\* both msg.sender and the contract are allowed on the account's field f
BothAllowed(grants, acct, f, sender) ==
    /\ <<acct[f], sender>> \in grants
    /\ <<acct[f], LedgerA>> \in grants

\* the fields each function opens to msg.sender and the contract when it ends
GrantedFields(fn) ==
    IF fn = "addTransaction"
    THEN {"balance", "monthlyExpense", "isOverBudget", "isBudgetWarning"}
    ELSE {"monthlyBudget", "isOverBudget", "isBudgetWarning"}

\* no handle of a user's storage is open to anyone but the user and the contract
OwnHandlesOnly == \A u \in Users : \A h \in HandlesOf(u) : AllowedOn(h) \subseteq {u, LedgerA}

(***************************************************************************)
(* C12: at the end of every addTransaction the caller and the contract are  *)
(* allowed on the caller's current balance, monthlyExpense, isOverBudget    *)
(* and isBudgetWarning handles, at the end of every setMonthlyBudget on the *)
(* current monthlyBudget, isOverBudget and isBudgetWarning handles, and no  *)
(* permission on a caller's handle is ever granted to an address other than *)
(* the caller and the contract.                                             *)
(***************************************************************************)
C12_Step ==
    /\ lastCall'.status = "ok" =>
            \A f \in GrantedFields(lastCall'.fn) :
                /\ ~isZero(accounts'[lastCall'.from][f])
                /\ BothAllowed(acl', accounts'[lastCall'.from], f, lastCall'.from)
    /\ \A p \in acl' \ acl :
            /\ p[1] \in AccountHandles(accounts'[lastCall'.from])
            /\ p[2] \in {lastCall'.from, LedgerA}
    /\ OwnHandlesOnly'

C12_AclGrants == [][C12_Step]_vars

\* both kinds of call completed, by different users, and left grants behind
C12_Witness ==
    /\ lastCall.status = "ok" /\ lastCall.fn = "setMonthlyBudget"
    /\ \E u \in Users \ {lastCall.from} : Len(transactions[u]) = 1
    /\ \A u \in Users : \E h \in HandlesOf(u) : AllowedOn(h) = {u, LedgerA}

\* the completed calls of function fn made by u
CallsBy(u, fn) == {i \in 1..Len(callLog) : callLog[i].from = u /\ callLog[i].fn = fn}

\* u completed no state-changing call yet
NeverCalled(u) == CallsBy(u, "addTransaction") = {} /\ CallsBy(u, "setMonthlyBudget") = {}

\* no completed call of u assigned the field a getter returns
NeverWritten(u, getter) ==
    CASE getter = "getBalance" -> CallsBy(u, "addTransaction") = {}
      [] getter = "getMonthlyExpense" ->
            \A i \in CallsBy(u, "addTransaction") : callLog[i].args[4]
      [] getter = "getMonthlyBudget" -> CallsBy(u, "setMonthlyBudget") = {}
      [] OTHER -> FALSE

NumericGetters == {"getBalance", "getMonthlyExpense", "getMonthlyBudget"}

NumericFields == {"balance", "monthlyExpense", "monthlyBudget"}

(***************************************************************************)
(* C13: before a user's first state-changing call all five getters return   *)
(* the zero handle; after any addTransaction or setMonthlyBudget by that    *)
(* user getBalance, getMonthlyExpense and getMonthlyBudget return non-zero  *)
(* handles, a field never written by an update decrypting to 0; a field     *)
(* that holds a handle is never set back to the zero handle.                *)
(***************************************************************************)
C13_Step ==
    /\ (lastRead.fn = "none" /\ lastRead'.fn \in Getters) =>
            IF NeverCalled(lastRead'.from)
            THEN isZero(lastRead'.result)
            ELSE lastRead'.fn \in NumericGetters =>
                    /\ ~isZero(lastRead'.result)
                    /\ NeverWritten(lastRead'.from, lastRead'.fn) =>
                            Clear(cts, lastRead'.result) = Zero32
    /\ \A u \in Users : \A f \in NumericFields \cup {"isOverBudget", "isBudgetWarning"} :
            ~isZero(accounts[u][f]) => ~isZero(accounts'[u][f])

C13_InitialisedToZero == [][C13_Step]_vars

\* getMonthlyBudget answered for a user who only ever added transactions
C13_Witness ==
    /\ lastRead.fn = "getMonthlyBudget"
    /\ CallsBy(lastRead.from, "addTransaction") # {}
    /\ CallsBy(lastRead.from, "setMonthlyBudget") = {}
    /\ ~isZero(lastRead.result)
    /\ Clear(cts, lastRead.result) = Zero32

\* the i-th (0-based) completed addTransaction of u, as an index of callLog
RECURSIVE NthAddTransaction(_, _, _)
NthAddTransaction(u, i, from) ==
    IF callLog[from].fn = "addTransaction" /\ callLog[from].from = u
    THEN IF i = 0 THEN from ELSE NthAddTransaction(u, i - 1, from + 1)
    ELSE NthAddTransaction(u, i, from + 1)

\* the stored transaction t carries the arguments args of an addTransaction call
StoredAsPassed(t, args) ==
    /\ t.timestamp = args[2]
    /\ t.category = args[3]
    /\ t.isIncome = args[4]
    /\ t.month = args[6]
    /\ ~isZero(t.amount)
    /\ Clear(cts, t.amount) = args[1].input

(***************************************************************************)
(* C14: for every index i below the caller's transaction count,             *)
(* getTransaction(i) returns the timestamp, category, isIncome and month    *)
(* exactly as passed in the caller's i-th addTransaction call (0-based)     *)
(* together with the amount handle derived from that call's encrypted       *)
(* input, and the stored fields never change afterwards.                    *)
(***************************************************************************)
C14_Step ==
    /\ (lastRead.fn = "none" /\ lastRead'.fn = "getTransaction"
            /\ lastRead'.arg < Len(transactions[lastRead'.from])) =>
            /\ lastRead'.status = "ok"
            /\ StoredAsPassed(lastRead'.result,
                   callLog[NthAddTransaction(lastRead'.from, lastRead'.arg, 1)].args)
    /\ \A u \in Users : \A i \in 1..Len(transactions[u]) :
            /\ i <= Len(transactions'[u])
            /\ transactions'[u][i] = transactions[u][i]
            /\ Clear(cts', transactions[u][i].amount) = Clear(cts, transactions[u][i].amount)

C14_TransactionAsPassed == [][C14_Step]_vars

\* the caller's first transaction read back after the caller recorded a second,
\* different one
C14_Witness ==
    /\ lastRead.fn = "getTransaction" /\ lastRead.status = "ok" /\ lastRead.arg = 0
    /\ Len(transactions[lastRead.from]) = 2
    /\ transactions[lastRead.from][2].category # lastRead.result.category
    /\ transactions[lastRead.from][2].isIncome # lastRead.result.isIncome

\* the step answers a view call
ReadStep == lastRead.fn = "none" /\ lastRead'.fn # "none"

(***************************************************************************)
(* C15: getTransaction(index) reverts with "Transaction index out of        *)
(* bounds" exactly when index is greater than or equal to the caller's own  *)
(* transaction count, whatever other users have recorded, and the revert    *)
(* changes no state.                                                        *)
(***************************************************************************)
C15_Step ==
    (ReadStep /\ lastRead'.fn = "getTransaction") =>
        /\ lastRead'.status = "reverted" <=>
                lastRead'.arg >= Len(transactions[lastRead'.from])
        /\ lastRead'.status = "reverted" =>
                /\ lastRead'.result = "Transaction index out of bounds"
                /\ UNCHANGED <<accounts, transactions, categoryTotals, cts, acl, lastCall,
                               nCalls>>
        /\ lastRead'.status \in {"ok", "reverted"}

C15_IndexOutOfBounds == [][C15_Step]_vars

\* the call reverted for an index that another user's list has
C15_Witness ==
    /\ lastRead.fn = "getTransaction" /\ lastRead.status = "reverted"
    /\ lastRead.arg = Len(transactions[lastRead.from])
    /\ \E u \in Users \ {lastRead.from} : lastRead.arg < Len(transactions[u])

\* the step is a completed transaction calling fn
CompletedCall(fn) == nCalls' = nCalls + 1 /\ lastCall'.status = "ok" /\ lastCall'.fn = fn

(***************************************************************************)
(* C16: a user's transaction list is append-only: getTransactionCount       *)
(* equals the number of addTransaction calls that user completed, each      *)
(* addTransaction increases it by exactly one and emits TransactionAdded    *)
(* with the index of the new entry (count - 1 after the push), and          *)
(* setMonthlyBudget and read calls leave the count unchanged.               *)
(***************************************************************************)
C16_Step ==
    /\ (ReadStep /\ lastRead'.fn = "getTransactionCount") =>
            /\ lastRead'.status = "ok"
            /\ lastRead'.result = Cardinality(CallsBy(lastRead'.from, "addTransaction"))
    /\ CompletedCall("addTransaction") =>
            /\ Len(transactions'[lastCall'.from]) = Len(transactions[lastCall'.from]) + 1
            /\ \A u \in Users \ {lastCall'.from} :
                    Len(transactions'[u]) = Len(transactions[u])
            /\ \E k \in 1..Len(lastCall'.events) :
                    lastCall'.events[k] =
                        <<"TransactionAdded", lastCall'.from,
                          Len(transactions'[lastCall'.from]) - 1>>
    /\ (CompletedCall("setMonthlyBudget") \/ ReadStep) =>
            \A u \in Users : Len(transactions'[u]) = Len(transactions[u])
    /\ \A u \in Users : \A i \in 1..Len(transactions[u]) :
            i <= Len(transactions'[u]) /\ transactions'[u][i] = transactions[u][i]

C16_AppendOnly == [][C16_Step]_vars

\* the count read back after the caller's second addTransaction, which was
\* announced with index 1
C16_Witness ==
    /\ lastRead.fn = "getTransactionCount" /\ lastRead.result = 2
    /\ lastCall.fn = "addTransaction" /\ lastCall.from = lastRead.from
    /\ lastCall.events[1] = <<"TransactionAdded", lastRead.from, 1>>

\* the 0-based indices of u's transactions recorded for month
IndicesOfMonth(u, month) ==
    {i \in 0..(Len(transactions[u]) - 1) : transactions[u][i + 1].month = month}

SubmittedValue(log) == log[Len(log)].args[1].input

(***************************************************************************)
(* C20: setMonthlyBudget sets the caller's monthlyBudget to the submitted   *)
(* encrypted value (replacing, not adding to, the previous budget) and      *)
(* leaves the cleartext of the caller's balance and monthlyExpense,         *)
(* lastUpdateMonth, the transaction list and all category totals unchanged; *)
(* only the two budget flags are recomputed.                                *)
(***************************************************************************)
C20_Step ==
    CompletedCall("setMonthlyBudget") =>
        /\ ~isZero(accounts'[lastCall'.from].monthlyBudget)
        /\ Clear(cts', accounts'[lastCall'.from].monthlyBudget) = SubmittedValue(callLog')
        /\ \A f \in {"balance", "monthlyExpense"} :
                /\ ~isZero(accounts[lastCall'.from][f]) =>
                        accounts'[lastCall'.from][f] = accounts[lastCall'.from][f]
                /\ Clear(cts', accounts'[lastCall'.from][f]) = ClearOf(accounts[lastCall'.from][f])
        /\ accounts'[lastCall'.from].lastUpdateMonth = accounts[lastCall'.from].lastUpdateMonth
        /\ transactions' = transactions
        /\ categoryTotals' = categoryTotals
        /\ \A h \in 1..Len(cts) : cts'[h] = cts[h]
        /\ \A u \in Users \ {lastCall'.from} : accounts'[u] = accounts[u]

C20_BudgetReplaced == [][C20_Step]_vars

\* a second budget submitted by a user who has a budget: the budget is the
\* second value, not the sum
C20_Witness ==
    /\ lastCall.status = "ok" /\ lastCall.fn = "setMonthlyBudget"
    /\ Cardinality(CallsBy(lastCall.from, "setMonthlyBudget")) = 2
    /\ BudgetClear(lastCall.from) = SubmittedValue(callLog)
    /\ BudgetClear(lastCall.from) = U32(0, 1)

\* chain id c is defined and non-zero and the table lists a deployment for it
\* at an address that is not the zero address
Configured(c) ==
    /\ c # NoChain
    /\ c # 0
    /\ c \in DOMAIN LedgerAddresses
    /\ LedgerAddresses[c].address # ZeroAddress

\* what the hook shows for chain id c right after computing the ledger info
DeploymentMessage(c, address) ==
    IF c # NoChain /\ address = NoValue
    THEN "Ledger deployment not found for chainId=" \o ToString(c) \o "."
    ELSE ""

\* the ledger info is the one of the chain id, and isDeployed follows it
DeploymentKnown ==
    /\ ledgerRef.address # NoValue <=> Configured(chainId)
    /\ Configured(chainId) => ledgerRef.address = LedgerAddresses[chainId].address
    /\ isDeployed <=> ledgerRef.address # NoValue

(***************************************************************************)
(* C19: getLedgerByChainId returns an address exactly when chainId is       *)
(* defined and non-zero and LedgerAddresses has an entry for it whose       *)
(* address is not the zero address; the message "Ledger deployment not      *)
(* found for chainId=<id>." is set exactly when chainId is defined and no   *)
(* address was found, and the message is cleared when chainId is undefined  *)
(* or an address exists; isDeployed is true exactly when an address was     *)
(* found.                                                                   *)
(***************************************************************************)
C19_Step ==
    /\ DeploymentKnown'
    /\ chainId' # chainId => message' = DeploymentMessage(chainId', ledgerRef'.address)

C19_DeploymentReported ==
    /\ DeploymentKnown
    /\ message = DeploymentMessage(chainId, ledgerRef.address)
    /\ [][C19_Step]_vars

\* the wallet moved to the chain listed with the zero address
C19_Witness ==
    /\ nChanges = 1
    /\ chainId = ChainPublic
    /\ ~isDeployed
    /\ message = "Ledger deployment not found for chainId=11155111."

(***************************************************************************)
(* PairSpec: two deployments of the contract are sent the same calls, by    *)
(* the same senders with the same plaintext arguments; only the encrypted   *)
(* values differ.  The second deployment's storage is `twin`.               *)
(***************************************************************************)
\* the working state of a call by sender against the storage st
MachineOf(st, sender) ==
    [acct |-> st.accounts[sender], txs |-> st.transactions[sender],
     cat |-> st.categoryTotals[sender], cts |-> st.cts, acl |-> st.acl, mem |-> NoMem,
     events |-> <<>>]

CallResultOn(st, call) ==
    IF call.fn = "addTransaction"
    THEN addTransaction(MachineOf(st, call.from), call.to, call.from, call.args[1],
                        call.args[2], call.args[3], call.args[4], call.args[5], call.args[6])
    ELSE setMonthlyBudget(MachineOf(st, call.from), call.to, call.from, call.args[1])

\* the storage st after the call left the working state m
StoreResult(st, call, m) ==
    [accounts |-> [st.accounts EXCEPT ![call.from] = m.acct],
     transactions |-> [st.transactions EXCEPT ![call.from] = m.txs],
     categoryTotals |-> [st.categoryTotals EXCEPT ![call.from] = m.cat],
     cts |-> m.cts,
     acl |-> m.acl,
     lastCall |-> [fn |-> call.fn, from |-> call.from, status |-> "ok", events |-> m.events]]

\* one transaction executed against the storage st
TransactOn(st, call) ==
    IF CallReverts(call)
    THEN [st EXCEPT !.lastCall = [fn |-> call.fn, from |-> call.from, status |-> "reverted",
                                  events |-> <<>>]]
    ELSE StoreResult(st, call, CallResultOn(st, call))

\* the call goes to this deployment, and `other` to the second one
ExecuteBoth(call, other) ==
    /\ Transact(call)
    /\ twin' = TransactOn(twin, other)
    /\ UNCHANGED lastRead

\* the <<category, categoryKey>> the paired calls are made with
PairCategoryInputs == {<<5, 0>>}

PairAddTransaction ==
    /\ nCalls < MaxCalls
    /\ UNCHANGED hookVars
    /\ \E sender \in Users, proofUser \in Users, value \in Amounts, other \in Amounts,
          timestamp \in Timestamps, cat \in PairCategoryInputs, isIncome \in BOOLEAN,
          month \in Months :
            ExecuteBoth(
                AddTransactionCall(LedgerA, sender, ExternalHandle(value), timestamp,
                    cat[1], isIncome, cat[2], month,
                    InputProof(ExternalHandle(value), LedgerA, proofUser)),
                AddTransactionCall(LedgerA, sender, ExternalHandle(other), timestamp,
                    cat[1], isIncome, cat[2], month,
                    InputProof(ExternalHandle(other), LedgerA, proofUser)))

PairSetMonthlyBudget ==
    /\ nCalls < MaxCalls
    /\ UNCHANGED hookVars
    /\ \E sender \in Users, proofUser \in Users, value \in Amounts, other \in Amounts :
            ExecuteBoth(
                SetMonthlyBudgetCall(LedgerA, sender, ExternalHandle(value),
                    InputProof(ExternalHandle(value), LedgerA, proofUser)),
                SetMonthlyBudgetCall(LedgerA, sender, ExternalHandle(other),
                    InputProof(ExternalHandle(other), LedgerA, proofUser)))

PairNext == PairAddTransaction \/ PairSetMonthlyBudget

PairSpec == InitDeployed /\ [][PairNext]_vars

\* this deployment's storage, as a record like twin
Storage ==
    [accounts |-> accounts, transactions |-> transactions, categoryTotals |-> categoryTotals,
     cts |-> cts, acl |-> acl, lastCall |-> lastCall]

\* a stored transaction without its amount
PlainFields(t) ==
    [timestamp |-> t.timestamp, category |-> t.category, isIncome |-> t.isIncome,
     month |-> t.month]

\* what can be read of the storage st without decrypting: per user the
\* transaction count, the plaintext fields of each transaction, lastUpdateMonth
\* and the answers of queryTransactionsByMonth; and the outcome and the events
\* of the latest call
PlainView(st) ==
    [count |-> [u \in Users |-> Len(st.transactions[u])],
     fields |-> [u \in Users |->
                    [i \in 1..Len(st.transactions[u]) |-> PlainFields(st.transactions[u][i])]],
     lastUpdateMonth |-> [u \in Users |-> st.accounts[u].lastUpdateMonth],
     byMonth |-> [u \in Users |-> [month \in Months |-> queryByMonth(st.transactions[u], month)]],
     status |-> st.lastCall.status,
     events |-> st.lastCall.events]

\* the cleartext amounts recorded in the storage st
AmountsOf(st, u) ==
    [i \in 1..Len(st.transactions[u]) |-> Clear(st.cts, st.transactions[u][i].amount)]

(***************************************************************************)
(* C18: two runs of the same sequence of addTransaction and                 *)
(* setMonthlyBudget calls that differ only in the cleartext amounts and     *)
(* budgets produce the same plaintext-observable contract state and events  *)
(* (transaction count, timestamps, categories, isIncome flags, months,      *)
(* lastUpdateMonth, queryTransactionsByMonth results, emitted event         *)
(* arguments), and a call reverts in one run exactly when it reverts in the *)
(* other: neither run reverts on account of an amount.                      *)
(***************************************************************************)
C18_AmountsNotObservable == PlainView(Storage) = PlainView(twin)

\* two transactions of one user recorded in both runs with different amounts
C18_Witness ==
    \E u \in Users :
        /\ Len(transactions[u]) = 2
        /\ lastCall.status = "ok"
        /\ AmountsOf(Storage, u)[1] # AmountsOf(twin, u)[1]
        /\ AmountsOf(Storage, u)[2] # AmountsOf(twin, u)[2]
        /\ transactions[u][1].isIncome /\ ~transactions[u][2].isIncome

====
